---------------------------- MODULE Spec2Model ----------------------------
(***************************************************************************)
(* A model of the workspace edit engine of typescript-mcp                  *)
(* (internal/tools/rename.go): the UTF-16 position mapper, the per-file     *)
(* edit applier and the multi-file write transaction with rollback.        *)
(*                                                                         *)
(* File content is a sequence of bytes (naturals 0..255).  A URI is the    *)
(* sequence of the characters of its path part, each either a literal      *)
(* character or a percent escape; a path is a sequence of literal          *)
(* characters.                                                             *)
(***************************************************************************)
EXTENDS Integers, Sequences, FiniteSets, TLC

(***************************************************************************)
(* Bounds of the model.                                                    *)
(***************************************************************************)
\* Longest DocumentChanges list of a WorkspaceEdit drawn by TxInit.
MaxDocChanges == 2
\* Longest edit list handed to applyFileEdits by FnInit.
MaxFnEdits == 2
\* Most scalar values in a line handed to utf16ColToByteOffset by OffInit.
MaxLineScalars == 3
\* Largest UTF-16 column handed to utf16ColToByteOffset by OffInit.
MaxCol == 7

(***************************************************************************)
(* Small helpers on sequences.                                             *)
(***************************************************************************)
Range(s) == {s[i] : i \in DOMAIN s}

Prefix(s, n) == SubSeq(s, 1, n)

Suffix(s, n) == SubSeq(s, n + 1, Len(s))

\* All sequences over S of length at most n.
SeqUpTo(S, n) == UNION {[1..k -> S] : k \in 0..n}

(***************************************************************************)
(* unicode/utf8.DecodeRuneInString, as used by utf16ColToByteOffset: the   *)
(* rune and the number of bytes of the first UTF-8 sequence of s.  An      *)
(* invalid or truncated sequence decodes to RuneError (U+FFFD) of size 1.  *)
(***************************************************************************)
IsCont(b) == b >= 128 /\ b <= 191

RuneErrorResult == [r |-> 65533, size |-> 1]

DecodeRuneInString(s) ==
    IF Len(s) < 1 THEN [r |-> 65533, size |-> 0]
    ELSE LET s0 == s[1] IN
      IF s0 < 128 THEN [r |-> s0, size |-> 1]
      ELSE IF s0 < 194 \/ s0 > 244 THEN RuneErrorResult
      ELSE LET sz == IF s0 < 224 THEN 2 ELSE IF s0 < 240 THEN 3 ELSE 4
               lo == IF s0 = 224 THEN 160 ELSE IF s0 = 240 THEN 144 ELSE 128
               hi == IF s0 = 237 THEN 159 ELSE IF s0 = 244 THEN 143 ELSE 191
           IN IF Len(s) < sz THEN RuneErrorResult
              ELSE IF s[2] < lo \/ hi < s[2] THEN RuneErrorResult
              ELSE IF sz = 2
                   THEN [r |-> (s0 % 32) * 64 + (s[2] % 64), size |-> 2]
              ELSE IF ~IsCont(s[3]) THEN RuneErrorResult
              ELSE IF sz = 3
                   THEN [r |-> (s0 % 16) * 4096 + (s[2] % 64) * 64 + (s[3] % 64),
                         size |-> 3]
              ELSE IF ~IsCont(s[4]) THEN RuneErrorResult
              ELSE [r |-> (s0 % 8) * 262144 + (s[2] % 64) * 4096
                          + (s[3] % 64) * 64 + (s[4] % 64),
                    size |-> 4]

(***************************************************************************)
(* utf16ColToByteOffset: the byte offset in line of UTF-16 column          *)
(* utf16Col.  Offsets are 0-based as in the source.                        *)
(***************************************************************************)
RECURSIVE Utf16Loop(_, _, _, _)
Utf16Loop(line, utf16Col, utf16Count, byteOff) ==
    IF ~(byteOff < Len(line)) THEN byteOff
    ELSE IF utf16Count >= utf16Col THEN byteOff
    ELSE LET d == DecodeRuneInString(Suffix(line, byteOff))
         IN Utf16Loop(line, utf16Col,
                      IF d.r <= 65535 THEN utf16Count + 1 ELSE utf16Count + 2,
                      byteOff + d.size)

\* A loop that stops only once the count has passed the column.
RECURSIVE Utf16LoopPast(_, _, _, _)
Utf16LoopPast(line, utf16Col, utf16Count, byteOff) ==
    IF ~(byteOff < Len(line)) THEN byteOff
    ELSE IF utf16Count > utf16Col THEN byteOff
    ELSE LET d == DecodeRuneInString(Suffix(line, byteOff))
         IN Utf16LoopPast(line, utf16Col,
                          IF d.r <= 65535 THEN utf16Count + 1
                          ELSE utf16Count + 2,
                          byteOff + d.size)

utf16ColToByteOffsetPast(line, utf16Col) == Utf16LoopPast(line, utf16Col, 0, 0)

\* A loop that counts one code unit for every rune.
RECURSIVE Utf16LoopNarrow(_, _, _, _)
Utf16LoopNarrow(line, utf16Col, utf16Count, byteOff) ==
    IF ~(byteOff < Len(line)) THEN byteOff
    ELSE IF utf16Count >= utf16Col THEN byteOff
    ELSE LET d == DecodeRuneInString(Suffix(line, byteOff))
         IN Utf16LoopNarrow(line, utf16Col, utf16Count + 1, byteOff + d.size)

utf16ColToByteOffsetNarrow(line, utf16Col) ==
    Utf16LoopNarrow(line, utf16Col, 0, 0)

utf16ColToByteOffset(line, utf16Col) == Utf16Loop(line, utf16Col, 0, 0)

(***************************************************************************)
(* splitLines: the lines of content, each with its terminator.             *)
(***************************************************************************)
\* strings.IndexByte(s, c): 0-based index of the first c in s, or -1.
RECURSIVE IndexByteFrom(_, _, _)
IndexByteFrom(s, c, i) ==
    IF i > Len(s) THEN -1
    ELSE IF s[i] = c THEN i - 1
    ELSE IndexByteFrom(s, c, i + 1)

IndexByte(s, c) == IndexByteFrom(s, c, 1)

RECURSIVE SplitLoop(_)
SplitLoop(s) ==
    LET idx == IndexByte(s, 10)
    IN IF idx < 0 THEN <<s>>
       ELSE <<Prefix(s, idx + 1)>> \o SplitLoop(Suffix(s, idx + 1))

\* A split that gives an empty content no line at all.
splitLinesEmptyNone(content) ==
    IF Len(content) = 0 THEN <<>> ELSE SplitLoop(content)

splitLines(content) ==
    IF Len(content) = 0 THEN << <<>> >> ELSE SplitLoop(content)

(***************************************************************************)
(* lineOffset: the byte offset of the start of 0-based line `line`.        *)
(***************************************************************************)
RECURSIVE LineOffsetLoop(_, _, _, _)
LineOffsetLoop(lines, line, i, off) ==
    IF i < line /\ i < Len(lines)
    THEN LineOffsetLoop(lines, line, i + 1, off + Len(lines[i + 1]))
    ELSE off

\* An offset that leaves one byte of every earlier line out of the count.
lineOffsetShort(lines, line) ==
    LineOffsetLoop(lines, line, 0, 0) - (IF line < Len(lines) THEN line ELSE Len(lines))

lineOffset(lines, line) == LineOffsetLoop(lines, line, 0, 0)

(***************************************************************************)
(* Text edits.                                                             *)
(***************************************************************************)
Position(l, c) == [Line |-> l, Character |-> c]

TextEdit(sl, sc, el, ec, text) ==
    [Range |-> [Start |-> Position(sl, sc), End |-> Position(el, ec)],
     NewText |-> text]

(***************************************************************************)
(* The comparison handed to sort.Slice in applyFileEdits: start line       *)
(* descending, then start character descending.                            *)
(***************************************************************************)
\* A comparison that forgets the character tie-break.
EditLessLineOnly(x, y) == x.Range.Start.Line > y.Range.Start.Line

EditLess(x, y) ==
    IF x.Range.Start.Line # y.Range.Start.Line
    THEN x.Range.Start.Line > y.Range.Start.Line
    ELSE x.Range.Start.Character > y.Range.Start.Character

(***************************************************************************)
(* sort.Slice on a copy of the edits.  For slices of at most 12 elements   *)
(* the Go runtime sorts by insertion, which keeps the input order of       *)
(* elements that compare equal.                                            *)
(***************************************************************************)
Swap(data, i, j) == [data EXCEPT ![i] = data[j], ![j] = data[i]]

RECURSIVE InsertionInner(_, _)
InsertionInner(data, j) ==
    IF j > 1 /\ EditLess(data[j], data[j - 1])
    THEN InsertionInner(Swap(data, j, j - 1), j - 1)
    ELSE data

RECURSIVE InsertionOuter(_, _)
InsertionOuter(data, i) ==
    IF i > Len(data) THEN data
    ELSE InsertionOuter(InsertionInner(data, i), i + 1)

SortEdits(edits) == InsertionOuter(edits, 2)

(***************************************************************************)
(* applyFileEdits: the result is [err, content]; err is "nil",             *)
(* "OutOfRange" (edit range out of bounds) or "InvalidOffset" (computed    *)
(* byte offsets out of range), and content is empty with an error.         *)
(***************************************************************************)
\* The splice of lines 219-223.
Splice(content, absStart, newText, absEnd) ==
    Prefix(content, absStart) \o newText \o Suffix(content, absEnd)

\* An iteration of the loop that splices without comparing the two offsets.
ApplyStepUnordered(content, edit) ==
    LET lines == splitLines(content)
        startLine == edit.Range.Start.Line
        endLine == edit.Range.End.Line
    IN IF startLine >= Len(lines) \/ endLine >= Len(lines)
       THEN [err |-> "OutOfRange", content |-> <<>>, absStart |-> 0,
             absEnd |-> 0]
       ELSE
         LET absStart == lineOffset(lines, startLine)
                         + utf16ColToByteOffset(lines[startLine + 1],
                                                edit.Range.Start.Character)
             absEnd == lineOffset(lines, endLine)
                       + utf16ColToByteOffset(lines[endLine + 1],
                                              edit.Range.End.Character)
         IN [err |-> "nil",
             content |-> Splice(content, absStart, edit.NewText, absEnd),
             absStart |-> absStart, absEnd |-> absEnd]

\* One iteration of the loop of lines 200-227 on the current content: the
\* error it returns or the content it leaves, with the offsets it computed.
ApplyStep(content, edit) ==
    LET lines == splitLines(content)
        startLine == edit.Range.Start.Line
        endLine == edit.Range.End.Line
    IN IF startLine >= Len(lines) \/ endLine >= Len(lines)
       THEN [err |-> "OutOfRange", content |-> <<>>, absStart |-> 0,
             absEnd |-> 0]
       ELSE
         LET startByte == utf16ColToByteOffset(lines[startLine + 1],
                                               edit.Range.Start.Character)
             endByte == utf16ColToByteOffset(lines[endLine + 1],
                                             edit.Range.End.Character)
             absStart == lineOffset(lines, startLine) + startByte
             absEnd == lineOffset(lines, endLine) + endByte
         IN IF absStart > Len(content) \/ absEnd > Len(content)
               \/ absStart > absEnd
            THEN [err |-> "InvalidOffset", content |-> <<>>,
                  absStart |-> absStart, absEnd |-> absEnd]
            ELSE [err |-> "nil",
                  content |-> Splice(content, absStart, edit.NewText, absEnd),
                  absStart |-> absStart, absEnd |-> absEnd]

RECURSIVE ApplyLoop(_, _, _)
ApplyLoop(content, sorted, k) ==
    IF k > Len(sorted) THEN [err |-> "nil", content |-> content]
    ELSE LET step == ApplyStep(content, sorted[k])
         IN IF step.err # "nil" THEN [err |-> step.err, content |-> <<>>]
            ELSE ApplyLoop(step.content, sorted, k + 1)

applyFileEdits(content, edits) == ApplyLoop(content, SortEdits(edits), 1)

(***************************************************************************)
(* firstEditLine and the preview of applyWorkspaceEdit's result.           *)
(***************************************************************************)
RECURSIVE MinLineLoop(_, _, _)
MinLineLoop(edits, i, min) ==
    IF i > Len(edits) THEN min
    ELSE MinLineLoop(edits, i + 1,
                     IF edits[i].Range.Start.Line < min
                     THEN edits[i].Range.Start.Line ELSE min)

firstEditLine(edits) ==
    IF Len(edits) = 0 THEN 0
    ELSE MinLineLoop(edits, 2, edits[1].Range.Start.Line)

\* strings.SplitN(s, "\n", n) for n >= 1.
RECURSIVE SplitN(_, _)
SplitN(s, n) ==
    LET idx == IndexByte(s, 10)
    IN IF n <= 1 \/ idx < 0 THEN <<s>>
       ELSE <<Prefix(s, idx)>> \o SplitN(Suffix(s, idx + 1), n - 1)

\* The white space strings.TrimSpace removes, among single bytes.
IsSpace(b) == b \in {9, 10, 11, 12, 13, 32}

RECURSIVE TrimLeft(_)
TrimLeft(s) ==
    IF Len(s) > 0 /\ IsSpace(s[1]) THEN TrimLeft(Suffix(s, 1)) ELSE s

RECURSIVE TrimRight(_)
TrimRight(s) ==
    IF Len(s) > 0 /\ IsSpace(s[Len(s)]) THEN TrimRight(Prefix(s, Len(s) - 1))
    ELSE s

TrimSpace(s) == TrimRight(TrimLeft(s))

Preview(updated, edits) ==
    LET lines == SplitN(updated, firstEditLine(edits) + 2)
    IN IF Len(lines) > firstEditLine(edits)
       THEN TrimSpace(lines[firstEditLine(edits) + 1])
       ELSE <<>>

(***************************************************************************)
(* docsync.URIToFile: the local path of a file URI.  The path part of the  *)
(* URI is percent-decoded, so several URIs name the same path.             *)
(***************************************************************************)
PctDecode(t) == CASE t = "%61" -> "a" [] t = "%62" -> "b" [] OTHER -> t

URIToFile(u) == [i \in DOMAIN u |-> PctDecode(u[i])]

\* The document URIs an edit may name, and the paths they resolve to.
URIs == {<<"a">>, <<"%61">>, <<"b">>}

Paths == {URIToFile(u) : u \in URIs}

\* The files on disk before the transaction: "ab\nc" and "x\ny".
PreDisk ==
    [p \in Paths |-> IF p = <<"a">> THEN <<97, 98, 10, 99>>
                     ELSE <<120, 10, 121>>]

\* Edits of the input: two that apply, one beyond the last line, one whose
\* start lies after its end.
EditA == TextEdit(0, 0, 0, 1, <<81>>)
EditB == TextEdit(1, 0, 1, 0, <<90>>)
EditOOR == TextEdit(2, 0, 2, 0, <<81>>)
EditInv == TextEdit(0, 1, 0, 0, <<81>>)

ChangesLists == {<<>>, <<EditA>>, <<EditOOR>>}

DocChangeEntries ==
    [TextDocument : [URI : URIs], Edits : {<<EditB>>, <<EditInv>>}]

WorkspaceEdits ==
    [Changes : UNION {[S -> ChangesLists] : S \in SUBSET URIs},
     DocumentChanges : SeqUpTo(DocChangeEntries, MaxDocChanges)]

(***************************************************************************)
(* State.                                                                  *)
(***************************************************************************)
VARIABLES
    edit,         \* the WorkspaceEdit handed to applyWorkspaceEdit
    unreadable,   \* the paths os.ReadFile fails on
    disk,         \* path -> bytes on disk
    pc,           \* position in applyWorkspaceEdit
    merged,       \* DocumentURI -> edits
    todo,         \* keys of merged the range loop has not yet visited
    work,         \* sequence of fileWork
    written,      \* sequence of fileWork written so far
    rb,           \* position of the rollback loop in written
    failing,      \* the fileWork whose write failed
    ret,          \* what applyWorkspaceEdit returns
    readLog,      \* paths handed to os.ReadFile, in order
    writeLog,     \* calls of os.WriteFile, in order
    rollbackErrs, \* paths whose rollback write returned an error
    fContent,     \* content handed to applyFileEdits
    fEdits,       \* edits handed to applyFileEdits, in the caller's order
    fFirst,       \* result of the first call on fContent
    fLast,        \* result of the latest call on fContent
    oLine,        \* line handed to utf16ColToByteOffset
    oCol,         \* UTF-16 column handed to utf16ColToByteOffset
    oOut,         \* byte offset it returned, -1 before the call
    txs,          \* concurrent calls of applyWorkspaceEdit: id -> its locals
    qTool,        \* tool called, ts_references or ts_diagnostics
    qReq,         \* its request, with or without maxResults
    qLocs,        \* results the LSP server returned, in server order
    qOut,          \* what the handler gave, pending before it ran
    sDisk,        \* docsync, file path -> content on disk
    sDocs,        \* Manager.docs, URI -> trackedDoc
    sCalls,       \* SyncFile calls, caller -> position and locals
    sWire,        \* notifications handed to conn.Notify, in order
    sClose,       \* position and locals of Manager.Close
    sN,            \* number of SyncFile and Close calls and outside writes so far
    kDisk,        \* tools, file path -> content on disk
    kCache,       \* fileLineCache, file path -> lines
    kRef,         \* a ts_references call, position and locals
    kRen,         \* a ts_rename call, position and locals
    kN,            \* number of tool calls and outside edits so far
    mMain,        \* position of run()
    mSig,         \* position of the goroutine waiting for ctx.Done()
    mOnce,        \* closeOnce, its done flag and its mutex
    mCtx,         \* whether the context of signal.NotifyContext is done
    mLsp,          \* lspClient, calls of Close and how far the running one got
    hLines,       \* the lines of the hover markdown
    hMd,          \* the markdown handed to extractConciseHover
    hOut          \* what extractConciseHover returned

txVars == <<edit, unreadable, disk, pc, merged, todo, work, written, rb,
            failing, ret, readLog, writeLog, rollbackErrs>>

fnVars == <<fContent, fEdits, fFirst, fLast>>

offVars == <<oLine, oCol, oOut>>

raceVars == <<txs>>

truncVars == <<qTool, qReq, qLocs, qOut>>

syncVars == <<sDisk, sDocs, sCalls, sWire, sClose, sN>>

cacheVars == <<kDisk, kCache, kRef, kRen, kN>>

runVars == <<mMain, mSig, mOnce, mCtx, mLsp>>

hoverVars == <<hLines, hMd, hOut>>

laterVars == <<truncVars, syncVars, cacheVars, runVars, hoverVars>>

vars == <<txVars, fnVars, offVars, raceVars, laterVars>>

NoFunction == [x \in {} |-> x]

Pending == [kind |-> "pending", file |-> <<>>, result |-> NoFunction]

NoWork == [path |-> <<>>, original |-> <<>>, updated |-> <<>>, edits |-> <<>>]

NoResult == [err |-> "none", content |-> <<>>]

(***************************************************************************)
(* The operating system, as applyWorkspaceEdit sees it.                    *)
(***************************************************************************)
\* os.ReadFile that never reports an error.
ReadFileNoError(name) == [err |-> FALSE, data |-> disk[name]]

\* os.ReadFile(name).
ReadFile(name) ==
    IF name \in unreadable THEN [err |-> TRUE, data |-> <<>>]
    ELSE [err |-> FALSE, data |-> disk[name]]

\* os.WriteFile(name, data, 0644) on disk d: the set of its outcomes.  The
\* call succeeds, or fails at open and leaves the file alone, or fails
\* after truncating the file, leaving a proper prefix of data.
WriteFile(d, name, data) ==
    {[err |-> FALSE, disk |-> [d EXCEPT ![name] = data]],
     [err |-> TRUE, disk |-> d]}
    \cup {[err |-> TRUE, disk |-> [d EXCEPT ![name] = Prefix(data, n)]] :
            n \in 0..(Len(data) - 1)}

(***************************************************************************)
(* applyWorkspaceEdit, lines 104-113: Changes and DocumentChanges merged   *)
(* into one map from DocumentURI to edits.                                 *)
(***************************************************************************)
MapGet(m, k) == IF k \in DOMAIN m THEN m[k] ELSE <<>>

MapPut(m, k, v) == [x \in DOMAIN m \cup {k} |-> IF x = k THEN v ELSE m[x]]

RECURSIVE MergeDocChangesReplacing(_, _, _)
MergeDocChangesReplacing(m, dcs, i) ==
    IF i > Len(dcs) THEN m
    ELSE MergeDocChangesReplacing(
             MapPut(m, dcs[i].TextDocument.URI, dcs[i].Edits), dcs, i + 1)

RECURSIVE MergeDocChanges(_, _, _)
MergeDocChanges(m, dcs, i) ==
    IF i > Len(dcs) THEN m
    ELSE LET docURI == dcs[i].TextDocument.URI
         IN MergeDocChanges(
                MapPut(m, docURI, MapGet(m, docURI) \o dcs[i].Edits),
                dcs, i + 1)

\* A merge that drops the documents left without an edit.
MergeEditsDroppingEmpty(e) ==
    LET m == MergeDocChanges(e.Changes, e.DocumentChanges, 1)
    IN [u \in {x \in DOMAIN m : m[x] # <<>>} |-> m[u]]

\* A merge in which a DocumentChanges entry replaces the edits already held.
MergeEditsReplacing(e) == MergeDocChangesReplacing(e.Changes, e.DocumentChanges, 1)

MergeEdits(e) == MergeDocChanges(e.Changes, e.DocumentChanges, 1)

(***************************************************************************)
(* applyWorkspaceEdit, lines 155-168: the result map.                      *)
(***************************************************************************)
EditInfo(w) ==
    [File |-> w.path, Edits |-> Len(w.edits),
     Preview |-> Preview(w.updated, w.edits)]

\* A result in which an entry replaces the entries its path already has.
RECURSIVE BuildResultReplacing(_, _, _)
BuildResultReplacing(result, ws, i) ==
    IF i > Len(ws) THEN result
    ELSE BuildResultReplacing(
             MapPut(result, ws[i].path, <<EditInfo(ws[i])>>), ws, i + 1)

RECURSIVE BuildResult(_, _, _)
BuildResult(result, ws, i) ==
    IF i > Len(ws) THEN result
    ELSE BuildResult(
             MapPut(result, ws[i].path,
                    Append(MapGet(result, ws[i].path), EditInfo(ws[i]))),
             ws, i + 1)

(***************************************************************************)
(* makeRenameHandler, lines 77-84: totalEdits, the sum of info.Edits over  *)
(* every editInfo of every path of the map applyWorkspaceEdit returned.    *)
(***************************************************************************)
RECURSIVE SumInfos(_, _)
SumInfos(infos, i) ==
    IF i > Len(infos) THEN 0 ELSE infos[i].Edits + SumInfos(infos, i + 1)

RECURSIVE SumOverPaths(_, _)
SumOverPaths(changes, ps) ==
    IF ps = {} THEN 0
    ELSE LET filePath == CHOOSE x \in ps : TRUE
         IN SumInfos(changes[filePath], 1)
            + SumOverPaths(changes, ps \ {filePath})

totalEdits(changes) == SumOverPaths(changes, DOMAIN changes)

(***************************************************************************)
(* The transaction.                                                        *)
(***************************************************************************)
TxInit ==
    /\ edit \in WorkspaceEdits
    /\ unreadable \in SUBSET Paths
    /\ disk = PreDisk
    /\ pc = "normalize"
    /\ merged = NoFunction
    /\ todo = {}
    /\ work = <<>>
    /\ written = <<>>
    /\ rb = 1
    /\ failing = NoWork
    /\ ret = Pending
    /\ readLog = <<>>
    /\ writeLog = <<>>
    /\ rollbackErrs = {}

TxIdle ==
    /\ edit = [Changes |-> NoFunction, DocumentChanges |-> <<>>]
    /\ unreadable = {}
    /\ disk = PreDisk
    /\ pc = "idle"
    /\ merged = NoFunction
    /\ todo = {}
    /\ work = <<>>
    /\ written = <<>>
    /\ rb = 1
    /\ failing = NoWork
    /\ ret = Pending
    /\ readLog = <<>>
    /\ writeLog = <<>>
    /\ rollbackErrs = {}

\* Lines 106-113.
Normalize ==
    /\ pc = "normalize"
    /\ merged' = MergeEdits(edit)
    /\ todo' = DOMAIN merged'
    /\ pc' = IF todo' = {} THEN "write" ELSE "read"
    /\ UNCHANGED <<edit, unreadable, disk, work, written, rb, failing, ret,
                   readLog, writeLog, rollbackErrs>>

Return(kind, file, result) ==
    /\ ret' = [kind |-> kind, file |-> file, result |-> result]
    /\ pc' = "done"

\* Lines 134-139, with the write issued at once instead of in a later loop.
AppendWorkAndWrite(w) ==
    /\ work' = Append(work, w)
    /\ disk' = [disk EXCEPT ![w.path] = w.updated]
    /\ writeLog' = Append(writeLog, [path |-> w.path, data |-> w.updated,
                                     phase |-> "write", err |-> FALSE])

\* Lines 134-139.
AppendWork(w) ==
    /\ work' = Append(work, w)
    /\ UNCHANGED <<disk, writeLog>>

\* One iteration of the loop of lines 124-140.  Go ranges over a map in an
\* order of its own choosing: any key not yet visited may come next.
ReadCompute ==
    /\ pc = "read"
    /\ \E docURI \in todo :
         LET edits == merged[docURI]
             filePath == URIToFile(docURI)
             rd == ReadFile(filePath)
             res == applyFileEdits(rd.data, edits)
         IN /\ todo' = todo \ {docURI}
            /\ readLog' = Append(readLog, filePath)
            /\ IF rd.err
               THEN /\ Return("ReadFailure", filePath, NoFunction)
                    /\ UNCHANGED <<work, disk, writeLog>>
               ELSE IF res.err # "nil"
               THEN /\ Return(res.err, filePath, NoFunction)
                    /\ UNCHANGED <<work, disk, writeLog>>
               ELSE /\ AppendWork([path |-> filePath, original |-> rd.data,
                                   updated |-> res.content, edits |-> edits])
                    /\ pc' = IF todo' = {} THEN "write" ELSE "read"
                    /\ UNCHANGED ret
    /\ UNCHANGED <<edit, unreadable, merged, written, rb, failing,
                   rollbackErrs>>

\* A write loop that returns the error of a failed write at once and leaves
\* the files written before as they are.
WriteNextNoRollback ==
    /\ pc = "write"
    /\ Len(written) < Len(work)
    /\ LET w == work[Len(written) + 1]
       IN \E out \in WriteFile(disk, w.path, w.updated) :
            /\ disk' = out.disk
            /\ writeLog' = Append(writeLog, [path |-> w.path, data |-> w.updated,
                                             phase |-> "write", err |-> out.err])
            /\ IF out.err
               THEN /\ Return("WriteFailure", w.path, NoFunction)
                    /\ failing' = w
                    /\ UNCHANGED written
               ELSE /\ written' = Append(written, w)
                    /\ UNCHANGED <<pc, failing, ret>>
    /\ UNCHANGED <<edit, unreadable, merged, todo, work, rb, readLog,
                   rollbackErrs>>

\* Line 145: the next write of the loop of lines 144-153.
WriteNext ==
    /\ pc = "write"
    /\ Len(written) < Len(work)
    /\ LET w == work[Len(written) + 1]
       IN \E out \in WriteFile(disk, w.path, w.updated) :
            /\ disk' = out.disk
            /\ writeLog' = Append(writeLog, [path |-> w.path, data |-> w.updated,
                                             phase |-> "write", err |-> out.err])
            /\ IF out.err
               THEN /\ pc' = "rollback"
                    /\ failing' = w
                    /\ UNCHANGED written
               ELSE /\ written' = Append(written, w)
                    /\ UNCHANGED <<pc, failing>>
    /\ UNCHANGED <<edit, unreadable, merged, todo, work, rb, ret, readLog,
                   rollbackErrs>>

\* A rollback that writes the updated content again.
RollbackDataUpdated(prev) == prev.updated

\* Line 148: what the rollback writes to prev.path.
RollbackData(prev) == prev.original

\* A rollback that ranges over every planned file.
RollbackListAllWork == work

\* Line 147: the files the rollback loop ranges over.
RollbackList == written

\* Line 148: one iteration of the rollback loop; the error is discarded.
Rollback ==
    /\ pc = "rollback"
    /\ rb <= Len(RollbackList)
    /\ LET prev == RollbackList[rb]
       IN \E out \in WriteFile(disk, prev.path, RollbackData(prev)) :
            /\ disk' = out.disk
            /\ writeLog' = Append(writeLog,
                                  [path |-> prev.path, data |-> RollbackData(prev),
                                   phase |-> "rollback", err |-> out.err])
            /\ rollbackErrs' = IF out.err THEN rollbackErrs \cup {prev.path}
                               ELSE rollbackErrs
    /\ rb' = rb + 1
    /\ UNCHANGED <<edit, unreadable, pc, merged, todo, work, written, failing,
                   ret, readLog>>

\* Line 150.
ReturnWriteError ==
    /\ pc = "rollback"
    /\ rb > Len(RollbackList)
    /\ Return("WriteFailure", failing.path, NoFunction)
    /\ UNCHANGED <<edit, unreadable, disk, merged, todo, work, written, rb,
                   failing, readLog, writeLog, rollbackErrs>>

\* Lines 155-168.
Commit ==
    /\ pc = "write"
    /\ Len(written) = Len(work)
    /\ Return("nil", <<>>, BuildResult(NoFunction, work, 1))
    /\ UNCHANGED <<edit, unreadable, disk, merged, todo, work, written, rb,
                   failing, readLog, writeLog, rollbackErrs>>

FnIdle ==
    /\ fContent = <<>>
    /\ fEdits = <<>>
    /\ fFirst = NoResult
    /\ fLast = NoResult

OffIdle ==
    /\ oLine = <<>>
    /\ oCol = 0
    /\ oOut = -1

RaceIdle == txs = <<>>

TruncIdle ==
    /\ qTool = "none"
    /\ qReq = <<>>
    /\ qLocs = <<>>
    /\ qOut = <<>>

SyncIdle ==
    /\ sDisk = <<>>
    /\ sDocs = <<>>
    /\ sCalls = <<>>
    /\ sWire = <<>>
    /\ sClose = <<>>
    /\ sN = <<>>

CacheIdle ==
    /\ kDisk = <<>>
    /\ kCache = <<>>
    /\ kRef = <<>>
    /\ kRen = <<>>
    /\ kN = 0

RunIdle ==
    /\ mMain = ""
    /\ mSig = ""
    /\ mOnce = <<>>
    /\ mCtx = FALSE
    /\ mLsp = <<>>

HoverIdle ==
    /\ hLines = <<>>
    /\ hMd = <<>>
    /\ hOut = <<>>

\* The variables of every other part of the model rest.
OtherIdle(g) ==
    /\ IF g = "trunc" THEN TRUE ELSE TruncIdle
    /\ IF g = "sync" THEN TRUE ELSE SyncIdle
    /\ IF g = "cache" THEN TRUE ELSE CacheIdle
    /\ IF g = "run" THEN TRUE ELSE RunIdle
    /\ IF g = "hover" THEN TRUE ELSE HoverIdle

OtherFrame(g) ==
    /\ IF g = "trunc" THEN TRUE ELSE UNCHANGED truncVars
    /\ IF g = "sync" THEN TRUE ELSE UNCHANGED syncVars
    /\ IF g = "cache" THEN TRUE ELSE UNCHANGED cacheVars
    /\ IF g = "run" THEN TRUE ELSE UNCHANGED runVars
    /\ IF g = "hover" THEN TRUE ELSE UNCHANGED hoverVars

Init == TxInit /\ FnIdle /\ OffIdle /\ RaceIdle /\ OtherIdle("tx")

Next ==
    \/ Normalize /\ UNCHANGED <<fnVars, offVars, raceVars, laterVars>>
    \/ ReadCompute /\ UNCHANGED <<fnVars, offVars, raceVars, laterVars>>
    \/ WriteNext /\ UNCHANGED <<fnVars, offVars, raceVars, laterVars>>
    \/ Rollback /\ UNCHANGED <<fnVars, offVars, raceVars, laterVars>>
    \/ ReturnWriteError /\ UNCHANGED <<fnVars, offVars, raceVars, laterVars>>
    \/ Commit /\ UNCHANGED <<fnVars, offVars, raceVars, laterVars>>

Spec == Init /\ [][Next]_vars

(***************************************************************************)
(* applyFileEdits on its own: a caller hands it a content and a list of    *)
(* edits, and may hand it the same edits again in another order.           *)
(***************************************************************************)
\* "ab\ncd", "éb\nc" (e-acute is two bytes), a file of one line, "a\r\n😀b"
\* (the emoji is four bytes and two UTF-16 units), "中b\nc" (three bytes)
\* and the empty file.
FnContents ==
    {<<97, 98, 10, 99, 100>>, <<195, 169, 98, 10, 99>>, <<97, 98, 99>>,
     <<97, 13, 10, 240, 159, 152, 128, 98>>, <<228, 184, 173, 98, 10, 99>>,
     <<>>}

FnEditPool ==
    {TextEdit(0, 1, 0, 1, <<88>>),      \* insert "X" at 0:1
     TextEdit(0, 1, 0, 1, <<89>>),      \* insert "Y" at 0:1
     TextEdit(0, 1, 0, 2, <<90>>),      \* replace 0:1-0:2 by "Z"
     TextEdit(0, 0, 0, 1, <<>>),        \* delete 0:0-0:1
     TextEdit(0, 2, 1, 0, <<>>),        \* delete 0:2-1:0, joining the lines
     TextEdit(1, 0, 1, 1, <<81, 10>>),  \* replace 1:0-1:1 by "Q\n"
     TextEdit(1, 1, 1, 1, <<87>>),      \* insert "W" at 1:1
     TextEdit(0, 0, 1, 1, <<86>>),      \* replace 0:0-1:1 by "V"
     TextEdit(2, 0, 2, 0, <<85>>),      \* insert "U" at 2:0
     TextEdit(0, 2, 0, 1, <<84>>)}      \* 0:2-0:1, the end before the start

FnInit ==
    /\ fContent \in FnContents
    /\ fEdits \in SeqUpTo(FnEditPool, MaxFnEdits)
    /\ fFirst = NoResult
    /\ fLast = NoResult

\* A call applyFileEdits(fContent, fEdits); the caller's slice is copied
\* before it is sorted and so stays as it is.
FnApply ==
    /\ fLast = NoResult
    /\ fLast' = applyFileEdits(fContent, fEdits)
    /\ fFirst' = IF fFirst = NoResult THEN fLast' ELSE fFirst
    /\ UNCHANGED <<fContent, fEdits>>

\* The caller puts two neighbouring edits of its list in the other order.
FnShuffle ==
    /\ fLast # NoResult
    /\ \E i \in 1..(Len(fEdits) - 1) :
         /\ fEdits[i] # fEdits[i + 1]
         /\ fEdits' = Swap(fEdits, i, i + 1)
    /\ fLast' = NoResult
    /\ UNCHANGED <<fContent, fFirst>>

FnNext ==
    \/ FnApply /\ UNCHANGED <<txVars, offVars, raceVars, laterVars>>
    \/ FnShuffle /\ UNCHANGED <<txVars, offVars, raceVars, laterVars>>

InitEdits == FnInit /\ TxIdle /\ OffIdle /\ RaceIdle /\ OtherIdle("tx")

SpecEdits == InitEdits /\ [][FnNext]_vars

(***************************************************************************)
(* utf16ColToByteOffset on its own: a caller hands it a line of            *)
(* well-formed UTF-8 and a UTF-16 column.                                  *)
(***************************************************************************)
\* "a", "é", "中" and "😀": scalar values of one to four bytes; the last one
\* takes two UTF-16 code units.
Scalars ==
    {<<97>>, <<195, 169>>, <<228, 184, 173>>, <<240, 159, 152, 128>>}

RECURSIVE Flatten(_)
Flatten(q) == IF q = <<>> THEN <<>> ELSE Head(q) \o Flatten(Tail(q))

OffLines == {Flatten(q) : q \in SeqUpTo(Scalars, MaxLineScalars)}

OffInit ==
    /\ oLine \in OffLines
    /\ oCol \in 0..MaxCol
    /\ oOut = -1

\* A call utf16ColToByteOffset(oLine, oCol).
OffCall ==
    /\ oOut = -1
    /\ oOut' = utf16ColToByteOffset(oLine, oCol)
    /\ UNCHANGED <<oLine, oCol>>

OffNext == OffCall /\ UNCHANGED <<txVars, fnVars, raceVars, laterVars>>

InitOffset == OffInit /\ TxIdle /\ FnIdle /\ RaceIdle /\ OtherIdle("tx")

SpecOffset == InitOffset /\ [][OffNext]_vars

(***************************************************************************)
(* Two calls of applyWorkspaceEdit running at once on one file system.     *)
(* Each call has the locals of the function; the calls share nothing but   *)
(* the files.  Each step is one iteration of a loop of the function, as in *)
(* the single call above, and the steps of the two calls interleave.       *)
(***************************************************************************)
Txs == {"t1", "t2"}

\* The documents and the edit lists of the two calls: both name file a.
RaceURIs == {<<"a">>, <<"b">>}

\* The first call replaces 0:0-0:1 by "Q" in a, the second inserts "Z" at
\* 1:0 in a; each may have the other edit to make in b.
RaceChanges(t) ==
    LET mine == IF t = "t1" THEN <<EditA>> ELSE <<EditB>>
        other == IF t = "t1" THEN <<EditB>> ELSE <<EditA>>
    IN {[u \in S |-> IF u = <<"a">> THEN mine ELSE other] :
          S \in {{<<"a">>}, RaceURIs}}

RaceEdits(t) == [Changes : RaceChanges(t), DocumentChanges : {<<>>}]

TxStart(e) ==
    [edit |-> e, pc |-> "normalize", merged |-> NoFunction, todo |-> {},
     work |-> <<>>, written |-> <<>>, rb |-> 1, failing |-> NoWork,
     ret |-> Pending]

RaceInit ==
    \E e1 \in RaceEdits("t1"), e2 \in RaceEdits("t2") :
        txs = [t \in Txs |-> TxStart(IF t = "t1" THEN e1 ELSE e2)]

\* Lines 106-113.
RaceNormalize(t) ==
    /\ txs[t].pc = "normalize"
    /\ LET m == MergeEdits(txs[t].edit)
       IN txs' = [txs EXCEPT ![t].merged = m, ![t].todo = DOMAIN m,
                             ![t].pc = IF DOMAIN m = {} THEN "write"
                                       ELSE "read"]
    /\ UNCHANGED disk

\* A write that applies the edits again to the bytes now on disk.
WriteDataReapplied(w, d) == applyFileEdits(d[w.path], w.edits).content

\* Line 145: the bytes a forward write hands to os.WriteFile.
WriteData(w, d) == w.updated

\* Lines 124-140: one iteration; the file is read as it is on disk now.
RaceReadCompute(t) ==
    /\ txs[t].pc = "read"
    /\ \E docURI \in txs[t].todo :
         LET edits == txs[t].merged[docURI]
             filePath == URIToFile(docURI)
             rd == ReadFile(filePath)
             res == applyFileEdits(rd.data, edits)
             left == txs[t].todo \ {docURI}
         IN IF rd.err \/ res.err # "nil"
            THEN txs' = [txs EXCEPT
                           ![t].todo = left,
                           ![t].pc = "done",
                           ![t].ret = [kind |-> IF rd.err THEN "ReadFailure"
                                                ELSE res.err,
                                       file |-> filePath,
                                       result |-> NoFunction]]
            ELSE txs' = [txs EXCEPT
                           ![t].todo = left,
                           ![t].work = Append(@, [path |-> filePath,
                                                  original |-> rd.data,
                                                  updated |-> res.content,
                                                  edits |-> edits]),
                           ![t].pc = IF left = {} THEN "write" ELSE "read"]
    /\ UNCHANGED disk

\* Line 145.
RaceWriteNext(t) ==
    /\ txs[t].pc = "write"
    /\ Len(txs[t].written) < Len(txs[t].work)
    /\ LET w == txs[t].work[Len(txs[t].written) + 1]
       IN \E out \in WriteFile(disk, w.path, WriteData(w, disk)) :
            /\ disk' = out.disk
            /\ txs' = IF out.err
                      THEN [txs EXCEPT ![t].pc = "rollback", ![t].failing = w]
                      ELSE [txs EXCEPT ![t].written = Append(@, w)]

\* Line 148.
RaceRollback(t) ==
    /\ txs[t].pc = "rollback"
    /\ txs[t].rb <= Len(txs[t].written)
    /\ LET prev == txs[t].written[txs[t].rb]
       IN \E out \in WriteFile(disk, prev.path, RollbackData(prev)) :
            disk' = out.disk
    /\ txs' = [txs EXCEPT ![t].rb = @ + 1]

\* Line 150.
RaceReturnWriteError(t) ==
    /\ txs[t].pc = "rollback"
    /\ txs[t].rb > Len(txs[t].written)
    /\ txs' = [txs EXCEPT ![t].pc = "done",
                          ![t].ret = [kind |-> "WriteFailure",
                                      file |-> txs[t].failing.path,
                                      result |-> NoFunction]]
    /\ UNCHANGED disk

\* Lines 155-168.
RaceCommit(t) ==
    /\ txs[t].pc = "write"
    /\ Len(txs[t].written) = Len(txs[t].work)
    /\ txs' = [txs EXCEPT ![t].pc = "done",
                          ![t].ret = [kind |-> "nil", file |-> <<>>,
                                      result |-> BuildResult(NoFunction,
                                                             txs[t].work, 1)]]
    /\ UNCHANGED disk

RaceFrame ==
    UNCHANGED <<edit, unreadable, pc, merged, todo, work, written, rb,
                failing, ret, readLog, writeLog, rollbackErrs, fnVars,
                offVars, laterVars>>

RaceNext ==
    \/ \E t \in Txs : RaceNormalize(t) /\ RaceFrame
    \/ \E t \in Txs : RaceReadCompute(t) /\ RaceFrame
    \/ \E t \in Txs : RaceWriteNext(t) /\ RaceFrame
    \/ \E t \in Txs : RaceRollback(t) /\ RaceFrame
    \/ \E t \in Txs : RaceReturnWriteError(t) /\ RaceFrame
    \/ \E t \in Txs : RaceCommit(t) /\ RaceFrame

InitRace == RaceInit /\ TxIdle /\ FnIdle /\ OffIdle /\ OtherIdle("tx")

SpecRace == InitRace /\ [][RaceNext]_vars

(***************************************************************************)
(* Notions the properties below are stated in.                             *)
(***************************************************************************)
Done == pc = "done"

\* The documents the WorkspaceEdit names, and the edits it holds for each:
\* those of Changes followed by those of every DocumentChanges entry.
InputURIs ==
    DOMAIN edit.Changes
    \cup {edit.DocumentChanges[i].TextDocument.URI :
            i \in DOMAIN edit.DocumentChanges}

RECURSIVE DocEditsFrom(_, _)
DocEditsFrom(u, i) ==
    IF i > Len(edit.DocumentChanges) THEN <<>>
    ELSE (IF edit.DocumentChanges[i].TextDocument.URI = u
          THEN edit.DocumentChanges[i].Edits ELSE <<>>)
         \o DocEditsFrom(u, i + 1)

InputEdits(u) == MapGet(edit.Changes, u) \o DocEditsFrom(u, 1)

DocEntriesOf(u) ==
    {i \in DOMAIN edit.DocumentChanges :
       edit.DocumentChanges[i].TextDocument.URI = u}

PlanPaths == {URIToFile(u) : u \in InputURIs}

URIsOf(p) == {u \in InputURIs : URIToFile(u) = p}

\* The orders a finite set can be listed in.
Orderings(S) == {q \in [1..Cardinality(S) -> S] : Range(q) = S}

RECURSIVE ConcatInputEdits(_, _)
ConcatInputEdits(us, i) ==
    IF i > Len(us) THEN <<>>
    ELSE InputEdits(us[i]) \o ConcatInputEdits(us, i + 1)

ForwardWrites == {i \in DOMAIN writeLog : writeLog[i].phase = "write"}

WrittenOk(p, data) ==
    \E i \in ForwardWrites :
        /\ writeLog[i].path = p
        /\ writeLog[i].data = data
        /\ ~writeLog[i].err

CharCode(c) == CASE c = "a" -> 97 [] c = "b" -> 98 [] OTHER -> 0

\* Paths in ascending byte order.
RECURSIVE PathLess(_, _)
PathLess(p, q) ==
    IF Len(q) = 0 THEN FALSE
    ELSE IF Len(p) = 0 THEN TRUE
    ELSE IF CharCode(p[1]) # CharCode(q[1])
         THEN CharCode(p[1]) < CharCode(q[1])
    ELSE PathLess(Suffix(p, 1), Suffix(q, 1))

Restored(ws) == \A i \in DOMAIN ws : disk[ws[i].path] = PreDisk[ws[i].path]

PosLE(a, b) ==
    a.Line < b.Line \/ (a.Line = b.Line /\ a.Character <= b.Character)

NonOverlapping(es) ==
    \A i, j \in DOMAIN es :
        i < j => \/ PosLE(es[i].Range.End, es[j].Range.Start)
                 \/ PosLE(es[j].Range.End, es[i].Range.Start)

DistinctStarts(es) ==
    \A i, j \in DOMAIN es : i < j => es[i].Range.Start # es[j].Range.Start

C2_RollbackFailureReported ==
    (Done /\ rollbackErrs # {}) => ret.kind = "PartialFailure"

(***************************************************************************)
(* C3  Whenever applyWorkspaceEdit returns an error other than             *)
(* PartialFailure, every file on disk has its pre-transaction bytes.       *)
(***************************************************************************)
C3_ErrorLeavesDiskUnchanged ==
    (Done /\ ret.kind \notin {"nil", "PartialFailure"}) => disk = PreDisk

(***************************************************************************)
(* C4  No disk write is issued until every file of the plan has been read  *)
(* and its updated content computed; a read or compute error is returned   *)
(* with no write issued and the disk as it was.                            *)
(***************************************************************************)
C4_NoWriteBeforeAllComputed ==
    /\ writeLog # <<>> =>
          /\ todo = {}
          /\ Len(work) = Cardinality(InputURIs)
    /\ (Done /\ ret.kind \in {"ReadFailure", "OutOfRange", "InvalidOffset"})
          => (writeLog = <<>> /\ disk = PreDisk)

\* A compute error came after another file's changed content was computed.
C4_Witness ==
    /\ Done /\ ret.kind \in {"OutOfRange", "InvalidOffset"}
    /\ Len(work) >= 1
    /\ work[1].updated # work[1].original

(***************************************************************************)
(* C5  On full success every file named in the WorkspaceEdit holds the     *)
(* result of applying its complete edit list (the edits of every URI that  *)
(* names it) to the content read at the start, and has a result entry.     *)
(***************************************************************************)
C5_SuccessAppliesAllEdits ==
    (Done /\ ret.kind = "nil") =>
        \A p \in PlanPaths :
            /\ p \in DOMAIN ret.result
            /\ \E us \in Orderings(URIsOf(p)) :
                 LET r == applyFileEdits(PreDisk[p], ConcatInputEdits(us, 1))
                 IN r.err = "nil" /\ disk[p] = r.content

(***************************************************************************)
(* C6  Order independence.  As claimed: for pairwise non-overlapping       *)
(* edits applyFileEdits returns the same result for every order of the     *)
(* edit list.                                                              *)
(***************************************************************************)
C6_OrderIndependentNonOverlapping ==
    (fFirst # NoResult /\ fLast # NoResult /\ NonOverlapping(fEdits))
        => fLast = fFirst

\* C6 as amended: for pairwise non-overlapping edits no two of which start
\* at the same position, applyFileEdits returns the same result for every
\* order of the edit list.
C6_OrderIndependentDistinctStarts ==
    (fFirst # NoResult /\ fLast # NoResult
       /\ NonOverlapping(fEdits) /\ DistinctStarts(fEdits))
        => fLast = fFirst

\* Two edits on one line were applied, handed over in the order of the
\* document (the second call has them in the other order).
C6_Witness ==
    /\ fFirst # NoResult /\ fLast # NoResult /\ fFirst.err = "nil"
    /\ Len(fEdits) = 2
    /\ NonOverlapping(fEdits) /\ DistinctStarts(fEdits)
    /\ fEdits[1].Range.Start.Line = fEdits[2].Range.Start.Line
    /\ fEdits[1].Range.Start.Character < fEdits[2].Range.Start.Character
    /\ fFirst.content # fContent

(***************************************************************************)
(* C7  Normalization concatenates: the edit list of a document is the      *)
(* edits of Changes followed by those of each of its DocumentChanges       *)
(* entries, and what is written for it is the content with all of them     *)
(* applied.                                                                *)
(***************************************************************************)
C7_MergeConcatenates ==
    /\ pc \notin {"normalize", "idle"} =>
          /\ DOMAIN merged = InputURIs
          /\ \A u \in InputURIs : merged[u] = InputEdits(u)
    /\ \A i \in ForwardWrites :
          \E u \in URIsOf(writeLog[i].path) :
              LET r == applyFileEdits(PreDisk[writeLog[i].path], InputEdits(u))
              IN r.err = "nil" /\ writeLog[i].data = r.content
    /\ (Done /\ ret.kind = "nil") =>
          \A u \in InputURIs :
              WrittenOk(URIToFile(u),
                        applyFileEdits(PreDisk[URIToFile(u)],
                                       InputEdits(u)).content)

\* A success in which one document has edits in Changes and in two
\* DocumentChanges entries.
C7_Witness ==
    /\ Done /\ ret.kind = "nil"
    /\ \E u \in DOMAIN edit.Changes :
          /\ edit.Changes[u] # <<>>
          /\ Cardinality(DocEntriesOf(u)) >= 2

(***************************************************************************)
(* C8  Each resolved path forms one work unit: no path is read twice and   *)
(* none is written twice in the forward write phase.                       *)
(***************************************************************************)
C8_OneWorkUnitPerPath ==
    /\ \A i, j \in DOMAIN readLog : i # j => readLog[i] # readLog[j]
    /\ \A i, j \in ForwardWrites : i # j => writeLog[i].path # writeLog[j].path

(***************************************************************************)
(* C9  The forward writes are issued in ascending order of path.           *)
(***************************************************************************)
C9_WritesAscendingByPath ==
    \A i, j \in ForwardWrites :
        i < j => ~PathLess(writeLog[j].path, writeLog[i].path)

(***************************************************************************)
(* C10  As claimed: if any file of the plan is unreadable the transaction  *)
(* fails with ReadFailure naming an unreadable file.                       *)
(***************************************************************************)
C10_UnreadableGivesReadFailure ==
    (Done /\ PlanPaths \cap unreadable # {})
        => (ret.kind = "ReadFailure" /\ ret.file \in unreadable)

\* C10 as amended: each file is read right before its own edits are
\* computed.  If any file of the plan is unreadable the transaction fails
\* with no write issued, either with ReadFailure naming an unreadable file
\* or with the OutOfRange or InvalidOffset error of a readable file that
\* the loop visited earlier; the error is about the file read last.
C10_UnreadableFailsBeforeWrite ==
    (Done /\ PlanPaths \cap unreadable # {}) =>
        /\ ret.kind \in {"ReadFailure", "OutOfRange", "InvalidOffset"}
        /\ writeLog = <<>>
        /\ Len(readLog) = Len(work) + 1
        /\ ret.file = readLog[Len(readLog)]
        /\ ret.kind = "ReadFailure" => ret.file \in unreadable
        /\ ret.kind # "ReadFailure" =>
              /\ ret.file \notin unreadable
              /\ \E u \in URIsOf(ret.file) :
                    applyFileEdits(PreDisk[ret.file], InputEdits(u)).err
                        = ret.kind

\* The read of an unreadable file failed after another file had been read
\* and its changed content computed.
C10_Witness ==
    /\ Done /\ ret.kind = "ReadFailure" /\ ret.file \in unreadable
    /\ Len(work) >= 1
    /\ work[1].updated # work[1].original

(***************************************************************************)
(* C11  Files without edits.  As claimed: a file whose normalized edit     *)
(* list is empty is discarded in Planning; it is not read, not written,    *)
(* is not the file an error names and is absent from the result.           *)
(***************************************************************************)
\* The paths every naming document of which has an empty edit list.
EmptyEditPaths ==
    {p \in PlanPaths : \A u \in URIsOf(p) : InputEdits(u) = <<>>}

C11_EmptyEditFilesDiscarded ==
    \A p \in EmptyEditPaths :
        /\ \A i \in DOMAIN readLog : readLog[i] # p
        /\ \A i \in DOMAIN writeLog : writeLog[i].path # p
        /\ Done => ret.file # p
        /\ Done => p \notin DOMAIN ret.result

(***************************************************************************)
(* C11  As the code has it: a document whose normalized edit list is empty *)
(* stays in the plan.  Its work unit has the bytes read as its update; the *)
(* transaction fails when its file cannot be read; and when the            *)
(* transaction succeeds its file was read, was written with the bytes      *)
(* read, and has an entry of 0 edits in the result.                        *)
(***************************************************************************)
C11_EmptyEditFilesProcessed ==
    /\ \A i \in DOMAIN work :
           work[i].edits = <<>> => work[i].updated = work[i].original
    /\ \A u \in InputURIs :
           InputEdits(u) = <<>> =>
             LET p == URIToFile(u)
             IN /\ (Done /\ p \in unreadable) => ret.kind # "nil"
                /\ (Done /\ ret.kind = "nil") =>
                     /\ \E i \in DOMAIN readLog : readLog[i] = p
                     /\ WrittenOk(p, PreDisk[p])
                     /\ p \in DOMAIN ret.result
                     /\ \E k \in DOMAIN ret.result[p] :
                            ret.result[p][k].Edits = 0

\* A transaction that succeeded, one file of which had no edit at all.
C11_Witness ==
    /\ Done
    /\ ret.kind = "nil"
    /\ \E p \in EmptyEditPaths :
           /\ WrittenOk(p, PreDisk[p])
           /\ ret.result[p] = <<[File |-> p, Edits |-> 0,
                                 Preview |-> Preview(PreDisk[p], <<>>)]>>

(***************************************************************************)
(* C12  Edit count conservation.  When the transaction has succeeded, the  *)
(* edit counts of the result's entries, which the rename handler adds up   *)
(* as totalEdits, sum to the number of edits of the input: those of every  *)
(* Changes list and of every DocumentChanges entry.                        *)
(***************************************************************************)
RECURSIVE ChangesCount(_)
ChangesCount(us) ==
    IF us = {} THEN 0
    ELSE LET u == CHOOSE x \in us : TRUE
         IN Len(edit.Changes[u]) + ChangesCount(us \ {u})

RECURSIVE DocChangesCount(_)
DocChangesCount(i) ==
    IF i > Len(edit.DocumentChanges) THEN 0
    ELSE Len(edit.DocumentChanges[i].Edits) + DocChangesCount(i + 1)

InputEditCount == ChangesCount(DOMAIN edit.Changes) + DocChangesCount(1)

C12_EditCountConserved ==
    (Done /\ ret.kind = "nil") => totalEdits(ret.result) = InputEditCount

\* A success over edits from Changes and from DocumentChanges, two documents
\* of which resolve to one path.
C12_Witness ==
    /\ Done
    /\ ret.kind = "nil"
    /\ ChangesCount(DOMAIN edit.Changes) >= 1
    /\ DocChangesCount(1) >= 2
    /\ \E p \in DOMAIN ret.result : Len(ret.result[p]) >= 2
    /\ totalEdits(ret.result) >= 3

(***************************************************************************)
(* Positions of a text, stated on the bytes of a well-formed UTF-8         *)
(* content without reference to the functions above.                       *)
(***************************************************************************)
\* The positions (1-based) of the line feeds of c.
LineFeeds(c) == {i \in DOMAIN c : c[i] = 10}

NumLines(c) == Cardinality(LineFeeds(c)) + 1

\* The byte offset at which 0-based line l of c starts, for l < NumLines(c):
\* 0, or the position of the l-th line feed.
LineStart(c, l) ==
    IF l = 0 THEN 0
    ELSE CHOOSE i \in LineFeeds(c) :
             Cardinality({j \in LineFeeds(c) : j <= i}) = l

\* Line l of c with its terminator.
LineOf(c, l) ==
    SubSeq(c, LineStart(c, l) + 1,
           IF l + 1 < NumLines(c) THEN LineStart(c, l + 1) ELSE Len(c))

\* The first byte of a scalar value, and of one outside the basic plane.
IsLead(b) == b < 128 \/ b >= 192

IsLead4(b) == b >= 240

\* The number of UTF-16 code units of s.
Utf16Len(s) ==
    Cardinality({i \in DOMAIN s : IsLead(s[i])})
    + Cardinality({i \in DOMAIN s : IsLead4(s[i])})

\* The lengths of the prefixes of s made of whole scalar values.
ScalarBounds(s) == {n \in 0..Len(s) : n = Len(s) \/ IsLead(s[n + 1])}

\* The byte length of the shortest prefix of whole scalar values of s whose
\* UTF-16 length reaches c, and Len(s) when there is none.
ColOffset(s, c) ==
    LET reach == {n \in ScalarBounds(s) : Utf16Len(Prefix(s, n)) >= c}
    IN IF reach = {} THEN Len(s)
       ELSE CHOOSE n \in reach : \A m \in reach : n <= m

\* The absolute byte offset of position pos of c.
AbsOffset(c, pos) ==
    LineStart(c, pos.Line) + ColOffset(LineOf(c, pos.Line), pos.Character)

(***************************************************************************)
(* C13  Single edit.  When applyFileEdits succeeds on one edit, it returns *)
(* content[0:absStart] + newText + content[absEnd:], absStart and absEnd   *)
(* being the line start plus the byte offset of the UTF-16 character in    *)
(* the line, so that every byte outside [absStart, absEnd), line           *)
(* terminators included, is kept.                                          *)
(***************************************************************************)
C13_SingleEditSplices ==
    (Len(fEdits) = 1 /\ fLast.err = "nil") =>
        LET absStart == AbsOffset(fContent, fEdits[1].Range.Start)
            absEnd == AbsOffset(fContent, fEdits[1].Range.End)
        IN /\ absStart <= absEnd
           /\ fLast.content = Prefix(fContent, absStart) \o fEdits[1].NewText
                                \o Suffix(fContent, absEnd)
           /\ Prefix(fLast.content, absStart) = Prefix(fContent, absStart)
           /\ Suffix(fLast.content, absStart + Len(fEdits[1].NewText))
                = Suffix(fContent, absEnd)

\* One edit on the second line of "a\r\n😀b": the 4-byte scalar behind the
\* "\r\n" is replaced by "Q\n" and every other byte stays.
C13_Witness ==
    /\ fContent = <<97, 13, 10, 240, 159, 152, 128, 98>>
    /\ fEdits = <<TextEdit(1, 0, 1, 1, <<81, 10>>)>>
    /\ fLast.err = "nil"
    /\ fLast.content = <<97, 13, 10, 81, 10, 98>>

(***************************************************************************)
(* C14  Position mapping.  utf16ColToByteOffset(line, c) is the byte       *)
(* length of the shortest prefix of whole scalar values of line whose      *)
(* UTF-16 length reaches or exceeds c, and len(line) when no prefix        *)
(* reaches c; so it is 0 for c = 0 and for the empty line, and always lies *)
(* within 0..len(line).                                                    *)
(***************************************************************************)
C14_OffsetIsShortestReachingPrefix ==
    oOut # -1 =>
        /\ oOut = ColOffset(oLine, oCol)
        /\ 0 <= oOut /\ oOut <= Len(oLine)
        /\ (oCol = 0 \/ oLine = <<>>) => oOut = 0
        /\ oCol > Utf16Len(oLine) => oOut = Len(oLine)

\* Column 2 of "a😀a" lies inside the surrogate pair: the offset is that of
\* the end of the 4-byte scalar.
C14_Witness ==
    /\ oLine = <<97, 240, 159, 152, 128, 97>>
    /\ oCol = 2
    /\ oOut = 5

(***************************************************************************)
(* C15  Offset round trip.  As claimed: for every column c from 0 to the   *)
(* UTF-16 length of the line, the first utf16ColToByteOffset(line, c)      *)
(* bytes of the line have a UTF-16 length of exactly c.                    *)
(***************************************************************************)
C15_RoundTripEveryColumn ==
    (oOut # -1 /\ oCol <= Utf16Len(oLine)) =>
        Utf16Len(Prefix(oLine, oOut)) = oCol

(***************************************************************************)
(* C15  As the code has it: the round trip gives c back for every column   *)
(* that lies between two scalar values; for a column inside the surrogate  *)
(* pair of a 4-byte scalar the prefix runs to the end of that scalar and   *)
(* has the UTF-16 length c + 1.                                            *)
(***************************************************************************)
\* The columns of s that lie between two scalar values.
ScalarColumns(s) == {Utf16Len(Prefix(s, n)) : n \in ScalarBounds(s)}

C15_RoundTripOnScalarColumns ==
    (oOut # -1 /\ oCol <= Utf16Len(oLine)) =>
        /\ oOut \in ScalarBounds(oLine)
        /\ Utf16Len(Prefix(oLine, oOut))
             = (IF oCol \in ScalarColumns(oLine) THEN oCol ELSE oCol + 1)

\* The round trip on "é中😀" at column 4, the end of the line: one scalar of
\* two, three and four bytes each lies before it.
C15_Witness ==
    /\ oLine = <<195, 169, 228, 184, 173, 240, 159, 152, 128>>
    /\ oCol = 4
    /\ oOut = 9
    /\ Utf16Len(Prefix(oLine, oOut)) = 4

(***************************************************************************)
(* The iterations applyFileEdits makes on fContent and fEdits: for each    *)
(* edit reached, in sorted order, the content it met and what the          *)
(* iteration gave.  The list ends with the iteration that failed.          *)
(***************************************************************************)
RECURSIVE StepsFrom(_, _, _)
StepsFrom(content, sorted, k) ==
    IF k > Len(sorted) THEN <<>>
    ELSE LET step == ApplyStep(content, sorted[k])
         IN <<[before |-> content, edit |-> sorted[k], step |-> step]>>
            \o (IF step.err # "nil" THEN <<>>
                ELSE StepsFrom(step.content, sorted, k + 1))

Steps == StepsFrom(fContent, SortEdits(fEdits), 1)

LinesInRange(c, e) ==
    e.Range.Start.Line < NumLines(c) /\ e.Range.End.Line < NumLines(c)

(***************************************************************************)
(* C16  Range validation.  applyFileEdits fails with OutOfRange exactly    *)
(* when the start or the end line of some edit is at or beyond the number  *)
(* of lines of the content as it stands when that edit is applied, the     *)
(* number of lines being the number of "\n" plus one; and it then returns  *)
(* no content.                                                             *)
(***************************************************************************)
C16_OutOfRangeExactly ==
    fLast # NoResult =>
        /\ fLast.err = "OutOfRange"
             <=> \E k \in DOMAIN Steps :
                     ~LinesInRange(Steps[k].before, Steps[k].edit)
        /\ fLast.err = "OutOfRange" => fLast.content = <<>>
        /\ \A k \in DOMAIN Steps :
               Len(splitLines(Steps[k].before)) = NumLines(Steps[k].before)

\* On "ab\ncd" the edit 0:0-1:1 is in range, but it is applied after the
\* edit that joined the two lines and then ends beyond the last line.
C16_Witness ==
    /\ fContent = <<97, 98, 10, 99, 100>>
    /\ fEdits = <<TextEdit(0, 0, 1, 1, <<86>>), TextEdit(0, 2, 1, 0, <<>>)>>
    /\ LinesInRange(fContent, fEdits[1])
    /\ Len(Steps) = 2
    /\ NumLines(Steps[2].before) = 1
    /\ fLast = [err |-> "OutOfRange", content |-> <<>>]

(***************************************************************************)
(* C17  Offset validation.  Every splice applyFileEdits makes has          *)
(* 0 <= absStart <= absEnd <= len(current content); and applyFileEdits     *)
(* fails with InvalidOffset, returning no content, exactly when it reaches *)
(* an edit in range whose start byte offset lies after its end byte        *)
(* offset.                                                                 *)
(***************************************************************************)
C17_SpliceOffsetsOrdered ==
    fLast # NoResult =>
        /\ \A k \in DOMAIN Steps :
               Steps[k].step.err = "nil" =>
                   /\ 0 <= Steps[k].step.absStart
                   /\ Steps[k].step.absStart <= Steps[k].step.absEnd
                   /\ Steps[k].step.absEnd <= Len(Steps[k].before)
        /\ fLast.err = "InvalidOffset"
             <=> \E k \in DOMAIN Steps :
                     /\ LinesInRange(Steps[k].before, Steps[k].edit)
                     /\ AbsOffset(Steps[k].before, Steps[k].edit.Range.Start)
                          > AbsOffset(Steps[k].before, Steps[k].edit.Range.End)
        /\ fLast.err = "InvalidOffset" => fLast.content = <<>>

\* On "ab\ncd" the insertion at 1:1 is spliced, then the edit 0:2-0:1, whose
\* start lies after its end, fails the call.
C17_Witness ==
    /\ fContent = <<97, 98, 10, 99, 100>>
    /\ fEdits = <<TextEdit(0, 2, 0, 1, <<84>>), TextEdit(1, 1, 1, 1, <<87>>)>>
    /\ Len(Steps) = 2
    /\ Steps[1].step.err = "nil"
    /\ Steps[1].step.absStart = 4
    /\ Steps[2].step.absStart = 2
    /\ Steps[2].step.absEnd = 1
    /\ fLast = [err |-> "InvalidOffset", content |-> <<>>]

(***************************************************************************)
(* C18  Transaction footprint.  Every file written is one the              *)
(* WorkspaceEdit names; a forward write goes to a planned file up to the   *)
(* one being written, a rollback write to a file this transaction wrote    *)
(* before without error; a file later than the failing file in write       *)
(* order, or outside the plan, receives no write and keeps its bytes.      *)
(***************************************************************************)
LoggedPaths == {writeLog[i].path : i \in DOMAIN writeLog}

C18_WritesOnlyPlannedAndWritten ==
    /\ LoggedPaths \subseteq PlanPaths
    /\ \A i \in DOMAIN writeLog :
           IF writeLog[i].phase = "write"
           THEN \E j \in DOMAIN work :
                    /\ j <= Cardinality({k \in ForwardWrites : k <= i})
                    /\ work[j].path = writeLog[i].path
                    /\ work[j].updated = writeLog[i].data
           ELSE \E j \in ForwardWrites :
                    /\ j < i
                    /\ writeLog[j].path = writeLog[i].path
                    /\ ~writeLog[j].err
    /\ \A p \in Paths \ LoggedPaths : disk[p] = PreDisk[p]
    /\ \A k \in DOMAIN work :
           (/\ k > Cardinality(ForwardWrites)
            /\ \A j \in 1..Cardinality(ForwardWrites) :
                   work[j].path # work[k].path)
             => work[k].path \notin LoggedPaths

\* A write that failed after an earlier one, with a file planned behind it:
\* the earlier file got its rollback write, the later file no write.
C18_Witness ==
    /\ Done
    /\ ret.kind = "WriteFailure"
    /\ Len(written) >= 1
    /\ \E i \in DOMAIN writeLog : writeLog[i].phase = "rollback"
    /\ \E k \in DOMAIN work :
           /\ k > Len(written) + 1
           /\ work[k].path \notin LoggedPaths
           /\ disk[work[k].path] = PreDisk[work[k].path]

(***************************************************************************)
(* C19  Progress and terminal outcome.  Every call of applyWorkspaceEdit   *)
(* returns: a call that has not returned can take a step, and every step   *)
(* lowers a measure that is a natural number.  A call that has issued a    *)
(* write returns in exactly one of three outcomes: Committed (every        *)
(* planned file written), RolledBack (a write failed, every rollback write *)
(* succeeded and the files written before are restored) or PartialFailure  *)
(* (a write failed and some rollback write failed).  A call whose write    *)
(* failed does not return before it has attempted the rollback write of    *)
(* every file it had written.                                              *)
(***************************************************************************)
\* The phases of a call in the order it passes them, later ones lower.
PhaseRank ==
    CASE pc = "normalize" -> 4
      [] pc = "read" -> 3
      [] pc = "write" -> 2
      [] pc = "rollback" -> 1
      [] OTHER -> 0

\* What is left to do in the current phase: documents to read, files to
\* write, files to roll back.
PhaseLeft ==
    CASE pc = "read" -> Cardinality(todo)
      [] pc = "write" -> Len(work) - Len(written)
      [] pc = "rollback" -> Len(written) + 1 - rb
      [] OTHER -> 0

\* More than a phase can have left to do: one unit per document URI.
PhaseSpan == Cardinality(URIs) + 1

Variant == PhaseRank * PhaseSpan + PhaseLeft

WriteFailed == \E i \in ForwardWrites : writeLog[i].err

RollbackAttempted ==
    \A k \in DOMAIN written :
        \E i \in DOMAIN writeLog :
            /\ writeLog[i].phase = "rollback"
            /\ writeLog[i].path = written[k].path
            /\ writeLog[i].data = written[k].original

Committed ==
    /\ ret.kind = "nil"
    /\ ~WriteFailed
    /\ Len(written) = Len(work)
    /\ \A k \in DOMAIN work : WrittenOk(work[k].path, work[k].updated)

RolledBack ==
    /\ ret.kind = "WriteFailure"
    /\ WriteFailed
    /\ RollbackAttempted
    /\ rollbackErrs = {}
    /\ Restored(written)

PartialFailure ==
    /\ ret.kind = "WriteFailure"
    /\ WriteFailed
    /\ RollbackAttempted
    /\ rollbackErrs # {}

OneOutcome ==
    /\ Committed \/ RolledBack \/ PartialFailure
    /\ ~(Committed /\ RolledBack)
    /\ ~(Committed /\ PartialFailure)
    /\ ~(RolledBack /\ PartialFailure)

\* The guard of some action of Next holds.
CanStep ==
    \/ pc = "normalize"
    \/ pc = "read" /\ todo # {}
    \/ pc = "write" /\ Len(written) < Len(work)
    \/ pc = "write" /\ Len(written) = Len(work)
    \/ pc = "rollback" /\ rb <= Len(RollbackList)
    \/ pc = "rollback" /\ rb > Len(RollbackList)

Settled ==
    /\ Done \/ CanStep
    /\ Variant \in Nat
    /\ PhaseLeft < PhaseSpan
    /\ (Done /\ writeLog # <<>>) => OneOutcome
    /\ (Done /\ WriteFailed) => RollbackAttempted

C19_TerminatesInOneOutcome == [][Variant' < Variant /\ Settled /\ Settled']_vars

\* A call that returned after a failed write and a failed rollback write.
C19_Witness ==
    /\ Done
    /\ Len(written) >= 1
    /\ PartialFailure
    /\ ~RolledBack

(***************************************************************************)
(* C20  Concurrent transactions.  Nothing serializes two calls that name   *)
(* a common file: each writes what it computed from the bytes it read.     *)
(* So when both calls have returned success, the common file holds the     *)
(* update of one call, and when that call had read the file before the     *)
(* other wrote it, the file holds that call's edits alone: the edits of    *)
(* the other call, which reported success, are lost.                       *)
(***************************************************************************)
BothSucceeded ==
    \A t \in Txs : txs[t].pc = "done" /\ txs[t].ret.kind = "nil"

UnitOf(t, p) ==
    txs[t].work[CHOOSE k \in DOMAIN txs[t].work : txs[t].work[k].path = p]

CommonPaths ==
    {p \in Paths : \A t \in Txs : \E k \in DOMAIN txs[t].work :
                                      txs[t].work[k].path = p}

\* File p with the edits of call t alone, made on its first bytes.
EditsOnly(t, p) == applyFileEdits(PreDisk[p], UnitOf(t, p).edits).content

\* File p after the two calls ran one after the other, t first.
SerialFrom(t, p) ==
    LET u == CHOOSE x \in Txs : x # t
    IN applyFileEdits(EditsOnly(t, p), UnitOf(u, p).edits).content

C20_LastWriterOverwrites ==
    BothSucceeded =>
        \A p \in CommonPaths :
            \E t \in Txs :
                LET w == UnitOf(t, p)
                IN /\ disk[p] = w.updated
                   /\ w.updated = applyFileEdits(w.original, w.edits).content
                   /\ w.original = PreDisk[p] =>
                        /\ disk[p] = EditsOnly(t, p)
                        /\ \A x \in Txs : disk[p] # SerialFrom(x, p)

\* Both calls returned success, the first reporting its edit of file a, and
\* file a is "ab\nZc": the "Q" of the first call is not in it.
C20_Witness ==
    /\ BothSucceeded
    /\ <<"a">> \in CommonPaths
    /\ txs["t1"].ret.result[<<"a">>][1].Edits = 1
    /\ disk[<<"a">>] = <<97, 98, 10, 90, 99>>
    /\ disk[<<"a">>] = EditsOnly("t2", <<"a">>)
    /\ SerialFrom("t1", <<"a">>) = <<81, 98, 10, 90, 99>>


(***************************************************************************)
(* ts_references and ts_diagnostics: truncation of the result list to      *)
(* maxResults (makeReferencesHandler, makeDiagnosticsHandler).             *)
(***************************************************************************)
MaxLocs == 3

MaxMaxResults == 4

DefaultMaxResults == 50

earlyVars == <<txVars, fnVars, offVars, raceVars>>

EarlyIdle == TxIdle /\ FnIdle /\ OffIdle /\ RaceIdle

LocIds == {1, 2, 3}

ServerLists == UNION {[1..n -> LocIds] : n \in 0..MaxLocs}

\* A request carries maxResults or leaves it out.
Requests == {<<>>} \cup {<<n>> : n \in -1..MaxMaxResults}

\* request.GetInt("maxResults", 50)
GetInt(req, default) == IF req = <<>> THEN default ELSE req[1]

\* s[:n] of Go: the runtime panics when n is negative or beyond the length.
SliceTo(s, n) ==
    IF n < 0 \/ n > Len(s)
    THEN [kind |-> "panic", list |-> <<>>]
    ELSE [kind |-> "ok", list |-> SubSeq(s, 1, n)]

\* The entry built for one location or diagnostic.
Entry(loc) == [item |-> loc]

Entries(list) == [i \in 1..Len(list) |-> Entry(list[i])]

\* totalCount, truncated and the cut of both handlers.
Truncate(list, maxResults) ==
    LET totalCount == Len(list)
        truncated == totalCount > maxResults
        cut == IF truncated THEN SliceTo(list, maxResults)
                            ELSE [kind |-> "ok", list |-> list]
    IN  IF cut.kind = "panic"
        THEN [kind |-> "panic"]
        ELSE [kind |-> "result", entries |-> Entries(cut.list),
              totalCount |-> totalCount, truncated |-> truncated]

referencesResult(req, locs) == Truncate(locs, GetInt(req, DefaultMaxResults))

diagnosticsResult(req, diags) == Truncate(diags, GetInt(req, DefaultMaxResults))

TruncInit ==
    /\ qTool \in {"ts_references", "ts_diagnostics"}
    /\ qReq \in Requests
    /\ qLocs \in ServerLists
    /\ qOut = <<>>

References ==
    /\ qTool = "ts_references"
    /\ qOut = <<>>
    /\ qOut' = referencesResult(qReq, qLocs)
    /\ UNCHANGED <<qTool, qReq, qLocs>>

Diagnostics ==
    /\ qTool = "ts_diagnostics"
    /\ qOut = <<>>
    /\ qOut' = diagnosticsResult(qReq, qLocs)
    /\ UNCHANGED <<qTool, qReq, qLocs>>

TruncNext ==
    \/ References /\ UNCHANGED earlyVars /\ OtherFrame("trunc")
    \/ Diagnostics /\ UNCHANGED earlyVars /\ OtherFrame("trunc")

InitTrunc == TruncInit /\ EarlyIdle /\ OtherIdle("trunc")

SpecTrunc == InitTrunc /\ [][TruncNext]_vars

\* C21: for ts_references and ts_diagnostics and any value of maxResults, the
\* response lists at most maxResults entries, the first ones in server order,
\* totalCount is the number of results before truncation, and truncated is
\* true exactly when totalCount exceeds the number of entries listed.
C21_TruncationContract ==
    qOut # <<>> =>
        LET maxResults == GetInt(qReq, DefaultMaxResults) IN
        /\ qOut.kind = "result"
        /\ Len(qOut.entries) <= maxResults
        /\ qOut.entries = Entries(SubSeq(qLocs, 1, Len(qOut.entries)))
        /\ qOut.totalCount = Len(qLocs)
        /\ qOut.truncated <=> (qOut.totalCount > Len(qOut.entries))

\* The contract holds for every maxResults that is not negative.
TruncationContractNonNegative ==
    (qOut # <<>> /\ GetInt(qReq, DefaultMaxResults) >= 0) =>
        LET maxResults == GetInt(qReq, DefaultMaxResults) IN
        /\ qOut.kind = "result"
        /\ Len(qOut.entries) = (IF Len(qLocs) > maxResults THEN maxResults ELSE Len(qLocs))
        /\ qOut.entries = Entries(SubSeq(qLocs, 1, Len(qOut.entries)))
        /\ qOut.totalCount = Len(qLocs)
        /\ qOut.truncated <=> (qOut.totalCount > Len(qOut.entries))


(***************************************************************************)
(* C22  Order of the splices.  Within applyFileEdits the splices are       *)
(* performed in non-increasing order of (start line, then start character) *)
(* for every input order of the edits, so each splice happens at or before *)
(* the position of all splices done earlier; the caller's edit list itself *)
(* is not reordered (FnApply leaves fEdits as it is: the sort works on a   *)
(* copy).                                                                  *)
(***************************************************************************)
StartNotBefore(x, y) ==
    \/ x.Range.Start.Line > y.Range.Start.Line
    \/ /\ x.Range.Start.Line = y.Range.Start.Line
       /\ x.Range.Start.Character >= y.Range.Start.Character

\* The iterations that spliced.
Spliced == {k \in DOMAIN Steps : Steps[k].step.err = "nil"}

\* The edits are reached in non-increasing order of their start positions.
EditsReachedInDescendingOrder ==
    fLast # NoResult =>
        \A j, k \in DOMAIN Steps :
            j < k => StartNotBefore(Steps[j].edit, Steps[k].edit)

C22_SplicesAtOrBeforeEarlierOnes ==
    fLast # NoResult =>
        /\ \A j, k \in DOMAIN Steps :
               j < k => StartNotBefore(Steps[j].edit, Steps[k].edit)
        /\ \A j, k \in Spliced :
               j < k => Steps[k].step.absStart <= Steps[j].step.absStart

\* On the empty file the insertion of "X" at 0:1 is clamped to offset 0;
\* the insertion of "Y" at 0:1 then meets the content "X" and is spliced at
\* offset 1, behind the first one.
SpliceBehindEarlierOne ==
    /\ fContent = <<>>
    /\ fEdits = <<TextEdit(0, 1, 0, 1, <<88>>), TextEdit(0, 1, 0, 1, <<89>>)>>
    /\ fLast = [err |-> "nil", content |-> <<88, 89>>]
    /\ Steps[1].step.absStart = 0
    /\ Steps[2].step.absStart = 1


(***************************************************************************)
(* docsync.Manager: SyncFile called from concurrent tool handlers, and     *)
(* Close.  SyncFile reads the file, decides under m.mu what to send, and   *)
(* hands the notification to conn.Notify after releasing the lock.         *)
(***************************************************************************)
\* Calls of SyncFile and Close and outside writes, taken together.
MaxSyncOps == 4

Callers == {"h1", "h2"}

SyncPaths == {"/a.ts", "/b.ts"}

SyncTexts == {"x", "y"}

\* uri.File(path)
FileToURI(path) == "file://" \o path

NoDocs == [u \in {} |-> u]

CallIdle == [pc |-> "idle", path |-> "", text |-> "", notif |-> <<>>,
             ret |-> "none"]

CloseIdle == [pc |-> "idle", uris |-> <<>>, ret |-> "none"]

DidOpen(u, text) ==
    [method |-> "textDocument/didOpen", uri |-> u, version |-> 1,
     text |-> text]

DidChange(u, version, text) ==
    [method |-> "textDocument/didChange", uri |-> u, version |-> version,
     text |-> text]

DidClose(u) ==
    [method |-> "textDocument/didClose", uri |-> u, version |-> 0,
     text |-> ""]

\* What conn.Notify was handed, and whether it returned nil.
Sent(n, ok) == [n |-> n, ok |-> ok]

TrackedDoc(version, content) == [version |-> version, content |-> content]

\* A critical section that sends didChange without comparing the content.
TrackAlwaysChanging(docs, u, text) ==
    IF u \notin DOMAIN docs
    THEN [docs |-> MapPut(docs, u, TrackedDoc(1, text)),
          notif |-> <<DidOpen(u, text)>>]
    ELSE [docs |-> MapPut(docs, u, TrackedDoc(docs[u].version + 1, text)),
          notif |-> <<DidChange(u, docs[u].version + 1, text)>>]

\* The critical section of SyncFile: the map it leaves and the notification
\* it chose, if any.
Track(docs, u, text) ==
    IF u \notin DOMAIN docs
    THEN [docs |-> MapPut(docs, u, TrackedDoc(1, text)),
          notif |-> <<DidOpen(u, text)>>]
    ELSE IF docs[u].content # text
    THEN [docs |-> MapPut(docs, u, TrackedDoc(docs[u].version + 1, text)),
          notif |-> <<DidChange(u, docs[u].version + 1, text)>>]
    ELSE [docs |-> docs, notif |-> <<>>]

SyncInit ==
    /\ sDisk = [p \in SyncPaths |-> "x"]
    /\ sDocs = NoDocs
    /\ sCalls = [c \in Callers |-> CallIdle]
    /\ sWire = <<>>
    /\ sClose = CloseIdle
    /\ sN = 0

\* Something outside the manager writes or removes a file.
DiskWrite ==
    /\ sN < MaxSyncOps
    /\ \E p \in SyncPaths, t \in SyncTexts \cup {"gone"} :
         /\ t # sDisk[p]
         /\ sDisk' = [sDisk EXCEPT ![p] = t]
    /\ sN' = sN + 1
    /\ UNCHANGED <<sDocs, sCalls, sWire, sClose>>

\* SyncFile up to the lock: os.ReadFile, returning its error.
SyncRead(c) ==
    /\ sCalls[c].pc = "idle"
    /\ sN < MaxSyncOps
    /\ \E p \in SyncPaths :
         sCalls' = [sCalls EXCEPT ![c] =
            IF sDisk[p] = "gone"
            THEN [CallIdle EXCEPT !.ret = "read error"]
            ELSE [pc |-> "read", path |-> p, text |-> sDisk[p],
                  notif |-> <<>>, ret |-> "none"]]
    /\ sN' = sN + 1
    /\ UNCHANGED <<sDisk, sDocs, sWire, sClose>>

\* SyncFile from m.mu.Lock() to m.mu.Unlock(), and the return of nil when
\* there is nothing to send.
SyncLocked(c) ==
    /\ sCalls[c].pc = "read"
    /\ LET t == Track(sDocs, FileToURI(sCalls[c].path), sCalls[c].text)
       IN /\ sDocs' = t.docs
          /\ sCalls' = [sCalls EXCEPT ![c] =
                IF t.notif = <<>>
                THEN [CallIdle EXCEPT !.ret = "nil"]
                ELSE [@ EXCEPT !.pc = "notify", !.notif = t.notif]]
    /\ UNCHANGED <<sDisk, sWire, sClose, sN>>

\* return conn.Notify(...): the notification is handed to the connection,
\* which returns nil or an error.
SyncNotify(c) ==
    /\ sCalls[c].pc = "notify"
    /\ \E ok \in BOOLEAN :
         /\ sWire' = Append(sWire, Sent(sCalls[c].notif[1], ok))
         /\ sCalls' = [sCalls EXCEPT ![c] =
               [CallIdle EXCEPT !.ret = IF ok THEN "nil"
                                               ELSE "notify error"]]
    /\ UNCHANGED <<sDisk, sDocs, sClose, sN>>

\* The orders in which a range over a map can visit the keys.
KeyOrders(S) ==
    {o \in [1..Cardinality(S) -> S] : \A i, j \in DOMAIN o : i # j => o[i] # o[j]}

\* Close under the lock: the URIs are collected and the map is replaced.
CloseLocked ==
    /\ sClose.pc = "idle"
    /\ sN < MaxSyncOps
    /\ \E o \in KeyOrders(DOMAIN sDocs) :
         sClose' = [pc |-> "notify", uris |-> o, ret |-> "none"]
    /\ sDocs' = NoDocs
    /\ sN' = sN + 1
    /\ UNCHANGED <<sDisk, sCalls, sWire>>

\* One iteration of the loop of Close: didClose for the next URI; an error
\* of conn.Notify ends the loop and is returned.
CloseNotify ==
    /\ sClose.pc = "notify"
    /\ sClose.uris # <<>>
    /\ \E ok \in BOOLEAN :
         /\ sWire' = Append(sWire, Sent(DidClose(Head(sClose.uris)), ok))
         /\ sClose' = IF ok THEN [sClose EXCEPT !.uris = Tail(@)]
                      ELSE [pc |-> "idle", uris |-> <<>>,
                            ret |-> "notify error"]
    /\ UNCHANGED <<sDisk, sDocs, sCalls, sN>>

\* The loop of Close is through: return nil.
CloseReturn ==
    /\ sClose.pc = "notify"
    /\ sClose.uris = <<>>
    /\ sClose' = [pc |-> "idle", uris |-> <<>>, ret |-> "nil"]
    /\ UNCHANGED <<sDisk, sDocs, sCalls, sWire, sN>>

SyncNext ==
    \/ DiskWrite /\ UNCHANGED earlyVars /\ OtherFrame("sync")
    \/ \E c \in Callers : SyncRead(c) /\ UNCHANGED earlyVars /\ OtherFrame("sync")
    \/ \E c \in Callers : SyncLocked(c) /\ UNCHANGED earlyVars /\ OtherFrame("sync")
    \/ \E c \in Callers : SyncNotify(c) /\ UNCHANGED earlyVars /\ OtherFrame("sync")
    \/ CloseLocked /\ UNCHANGED earlyVars /\ OtherFrame("sync")
    \/ CloseNotify /\ UNCHANGED earlyVars /\ OtherFrame("sync")
    \/ CloseReturn /\ UNCHANGED earlyVars /\ OtherFrame("sync")

InitSync == SyncInit /\ EarlyIdle /\ OtherIdle("sync")

SpecSync == InitSync /\ [][SyncNext]_vars


(***************************************************************************)
(* C23  SyncFile protocol per document URI.  A SyncFile that finds the     *)
(* document untracked sends textDocument/didOpen with version 1 and the    *)
(* full text; one that finds tracked content different from what it read   *)
(* from disk sends textDocument/didChange with the full text and a version *)
(* exactly one greater than the tracked one; one that finds the content    *)
(* equal sends nothing and leaves the tracked document as it is.           *)
(***************************************************************************)
LeavesLock(c) == sCalls[c].pc = "read" /\ sCalls'[c].pc # "read"

HandsOver(c) == sCalls[c].pc = "notify" /\ sCalls'[c].pc # "notify"

SyncProtocolStep(c) ==
    LET u == "file://" \o sCalls[c].path
        text == sCalls[c].text
    IN
    /\ (LeavesLock(c) /\ u \notin DOMAIN sDocs) =>
          /\ sCalls'[c].pc = "notify"
          /\ sCalls'[c].notif =
                <<[method |-> "textDocument/didOpen", uri |-> u,
                   version |-> 1, text |-> text]>>
          /\ sDocs'[u] = [version |-> 1, content |-> text]
    /\ (LeavesLock(c) /\ u \in DOMAIN sDocs /\ sDocs[u].content # text) =>
          /\ sCalls'[c].pc = "notify"
          /\ sCalls'[c].notif =
                <<[method |-> "textDocument/didChange", uri |-> u,
                   version |-> sDocs[u].version + 1, text |-> text]>>
          /\ sDocs'[u] = [version |-> sDocs[u].version + 1, content |-> text]
    /\ (LeavesLock(c) /\ u \in DOMAIN sDocs /\ sDocs[u].content = text) =>
          /\ sCalls'[c].pc = "idle"
          /\ sDocs' = sDocs
          /\ sWire' = sWire
    /\ HandsOver(c) =>
          /\ Len(sWire') = Len(sWire) + 1
          /\ SubSeq(sWire', 1, Len(sWire)) = sWire
          /\ sWire'[Len(sWire')].n = sCalls[c].notif[1]
          /\ sCalls'[c].pc = "idle"

C23_SyncFileProtocol == [][\A c \in Callers : SyncProtocolStep(c)]_vars

\* /a.ts was opened with "x", changed outside to "y" and synchronized, and
\* one more SyncFile found the content equal and sent nothing.
C23_Witness ==
    /\ sN = 4
    /\ sWire = <<[n |-> [method |-> "textDocument/didOpen",
                         uri |-> "file:///a.ts", version |-> 1, text |-> "x"],
                  ok |-> TRUE],
                 [n |-> [method |-> "textDocument/didChange",
                         uri |-> "file:///a.ts", version |-> 2, text |-> "y"],
                  ok |-> TRUE]>>
    /\ sDocs = [u \in {"file:///a.ts"} |-> [version |-> 2, content |-> "y"]]
    /\ sDisk = [p \in SyncPaths |-> IF p = "/a.ts" THEN "y" ELSE "x"]
    /\ \A c \in Callers : sCalls[c] = [CallIdle EXCEPT !.ret = "nil"]
    /\ sClose = CloseIdle


(***************************************************************************)
(* What the connection was handed for one document.                        *)
(***************************************************************************)
OfURI(u) == {i \in DOMAIN sWire : sWire[i].n.uri = u}

SyncURIs == {"file://" \o p : p \in SyncPaths}

Quiescent == \A c \in Callers : sCalls[c].pc = "idle"

CloseNeverCalled == sClose = CloseIdle

AllNotifyOk == \A i \in DOMAIN sWire : sWire[i].ok

LastOf(S) == CHOOSE i \in S : \A j \in S : j <= i

(***************************************************************************)
(* C24  Concurrent SyncFile calls for one file.  The notifications for a   *)
(* document are handed to the connection in strictly increasing version    *)
(* order, with didOpen (version 1) before any didChange, and, once the     *)
(* calls have returned, the last notification sent carries the content the *)
(* manager tracks.  (Stated for runs in which Close is not called and no   *)
(* conn.Notify fails.)                                                     *)
(***************************************************************************)
C24_NotificationsInVersionOrder ==
    (CloseNeverCalled /\ AllNotifyOk) =>
        \A u \in SyncURIs :
            /\ \A i, j \in OfURI(u) :
                   i < j => sWire[i].n.version < sWire[j].n.version
            /\ \A j \in OfURI(u) :
                   sWire[j].n.method = "textDocument/didChange" =>
                       \E i \in OfURI(u) :
                           /\ i < j
                           /\ sWire[i].n.method = "textDocument/didOpen"
                           /\ sWire[i].n.version = 1
            /\ (Quiescent /\ OfURI(u) # {}) =>
                   /\ u \in DOMAIN sDocs
                   /\ sWire[LastOf(OfURI(u))].n.text = sDocs[u].content

\* Two handlers synchronize /a.ts while it changes from "x" to "y": the
\* didChange of the second is handed over before the didOpen of the first.
OvertakenDidOpen ==
    /\ CloseNeverCalled /\ AllNotifyOk /\ Quiescent
    /\ Len(sWire) = 2
    /\ sWire[1].n = [method |-> "textDocument/didChange",
                     uri |-> "file:///a.ts", version |-> 2, text |-> "y"]
    /\ sWire[2].n = [method |-> "textDocument/didOpen",
                     uri |-> "file:///a.ts", version |-> 1, text |-> "x"]
    /\ sDocs["file:///a.ts"] = [version |-> 2, content |-> "y"]

(***************************************************************************)
(* C25  Tracked state and notifications sent.  Once the calls of SyncFile  *)
(* have returned, the content and version the Manager tracks for a         *)
(* document equal those of the last notification successfully sent for it, *)
(* and a document for which none was sent successfully is not tracked:     *)
(* a failing conn.Notify does not advance the tracked state.  (Stated for  *)
(* runs in which Close is not called.)                                     *)
(***************************************************************************)
OkOfURI(u) == {i \in OfURI(u) : sWire[i].ok}

C25_TrackedEqualsLastSent ==
    (CloseNeverCalled /\ Quiescent) =>
        \A u \in SyncURIs :
            IF OkOfURI(u) = {}
            THEN u \notin DOMAIN sDocs
            ELSE /\ u \in DOMAIN sDocs
                 /\ sDocs[u].version = sWire[LastOf(OkOfURI(u))].n.version
                 /\ sDocs[u].content = sWire[LastOf(OkOfURI(u))].n.text

\* One SyncFile of /a.ts whose conn.Notify failed: the document is tracked
\* with version 1 although the server was never told.
TrackedAfterFailedNotify ==
    /\ sN = 1
    /\ Quiescent
    /\ Len(sWire) = 1
    /\ ~sWire[1].ok
    /\ sWire[1].n.method = "textDocument/didOpen"
    /\ sDocs = [u \in {"file:///a.ts"} |-> [version |-> 1, content |-> "x"]]

(***************************************************************************)
(* C26  Close.  Once Manager.Close has returned, no document whose latest  *)
(* didOpen reached the connection is left untracked without a didClose     *)
(* handed over after it, and Close itself left the manager tracking none   *)
(* of the documents it found.                                              *)
(***************************************************************************)
OpenAtServer(u) ==
    \E i \in OfURI(u) :
        /\ sWire[i].n.method = "textDocument/didOpen"
        /\ sWire[i].ok
        /\ \A j \in OfURI(u) :
               j > i => sWire[j].n.method # "textDocument/didClose"

C26_CloseClosesEveryDocument ==
    sClose.pc = "idle" =>
        \A u \in SyncURIs : OpenAtServer(u) => u \in DOMAIN sDocs

\* Both files were opened one after the other; Close emptied the map, its
\* first didClose failed and it returned: the other document got none.
LeftOpenByClose ==
    /\ sN = 3
    /\ Quiescent
    /\ sClose = [pc |-> "idle", uris |-> <<>>, ret |-> "notify error"]
    /\ sDocs = NoDocs
    /\ Len(sWire) = 3
    /\ sWire[1].ok /\ sWire[2].ok /\ ~sWire[3].ok
    /\ sWire[1].n.method = "textDocument/didOpen"
    /\ sWire[2].n.method = "textDocument/didOpen"
    /\ sWire[1].n.uri # sWire[2].n.uri
    /\ sWire[3].n.method = "textDocument/didClose"
    /\ \E u \in SyncURIs : OpenAtServer(u) /\ u # sWire[3].n.uri


(***************************************************************************)
(* The file line cache of the tools package, read by the previews of       *)
(* ts_references and cleared by ts_rename, and the tail of the ts_rename   *)
(* handler: re-sync of the modified files and ClearFileCache.  The content *)
(* of a file is written as the number of times it was changed.             *)
(***************************************************************************)
\* Tool calls and outside edits, taken together.
MaxToolOps == 4

CachePaths == {"/a.ts", "/b.ts"}

NoCache == [p \in {} |-> p]

RefIdle == [pc |-> "idle", path |-> "", lines |-> 0, preview |-> 0,
            fresh |-> FALSE]

RenIdle == [pc |-> "idle", modified |-> {}, todo |-> {}, synced |-> {},
            cleared |-> FALSE, ret |-> "none"]

\* A change of file p reaches the call that is reading it.
Touch(ref, P) == IF ref.path \in P THEN [ref EXCEPT !.fresh = FALSE] ELSE ref

CacheInit ==
    /\ kDisk = [p \in CachePaths |-> 0]
    /\ kCache = NoCache
    /\ kRef = RefIdle
    /\ kRen = RenIdle
    /\ kN = 0

\* Something outside the server edits a file.
OutsideEdit ==
    /\ kN < MaxToolOps
    /\ \E p \in CachePaths :
         /\ kDisk' = [kDisk EXCEPT ![p] = @ + 1]
         /\ kRef' = Touch(kRef, {p})
    /\ kN' = kN + 1
    /\ UNCHANGED <<kCache, kRen>>

\* A ts_references call reaches readLine for a location in file p.
RefStart ==
    /\ kRef.pc \in {"idle", "done"}
    /\ kN < MaxToolOps
    /\ \E p \in CachePaths :
         kRef' = [pc |-> "check", path |-> p, lines |-> 0, preview |-> 0,
                  fresh |-> TRUE]
    /\ kN' = kN + 1
    /\ UNCHANGED <<kDisk, kCache, kRen>>

\* cachedReadLines, first critical section: a hit returns the cached lines.
CacheCheck ==
    /\ kRef.pc = "check"
    /\ kRef' = IF kRef.path \in DOMAIN kCache
               THEN [kRef EXCEPT !.pc = "done", !.preview = kCache[kRef.path]]
               ELSE [kRef EXCEPT !.pc = "open"]
    /\ UNCHANGED <<kDisk, kCache, kRen, kN>>

\* cachedReadLines outside the lock: os.Open and the scan of the file.
CacheRead ==
    /\ kRef.pc = "open"
    /\ kRef' = [kRef EXCEPT !.pc = "store", !.lines = kDisk[kRef.path]]
    /\ UNCHANGED <<kDisk, kCache, kRen, kN>>

\* cachedReadLines, second critical section: the lines are stored and
\* returned.
CacheStore ==
    /\ kRef.pc = "store"
    /\ kCache' = MapPut(kCache, kRef.path, kRef.lines)
    /\ kRef' = [kRef EXCEPT !.pc = "done", !.preview = kRef.lines]
    /\ UNCHANGED <<kDisk, kRen, kN>>

\* ts_rename up to the return of applyWorkspaceEdit: an error before any
\* write, an error after a rollback that left files modified, or the
\* commit of the edits of a non-empty set of files.
RenameApply ==
    /\ kRen.pc \in {"idle", "done"}
    /\ kN < MaxToolOps
    /\ \E M \in SUBSET CachePaths, committed \in BOOLEAN :
         /\ committed => M # {}
         /\ kDisk' = [p \in CachePaths |->
                         IF p \in M THEN kDisk[p] + 1 ELSE kDisk[p]]
         /\ kRef' = Touch(kRef, M)
         /\ kRen' = IF committed
                    THEN [pc |-> "resync", modified |-> M, todo |-> M,
                          synced |-> {}, cleared |-> FALSE, ret |-> "none"]
                    ELSE [pc |-> "done", modified |-> M, todo |-> {},
                          synced |-> {}, cleared |-> FALSE, ret |-> "error"]
    /\ kN' = kN + 1
    /\ UNCHANGED kCache

\* One iteration of the re-sync loop: SyncFile of a modified file, in map
\* order; its error is returned at once.
RenameResync ==
    /\ kRen.pc = "resync"
    /\ kRen.todo # {}
    /\ \E p \in kRen.todo, ok \in BOOLEAN :
         kRen' = IF ok
                 THEN [kRen EXCEPT !.todo = @ \ {p}, !.synced = @ \cup {p}]
                 ELSE [kRen EXCEPT !.pc = "done", !.ret = "error"]
    /\ UNCHANGED <<kDisk, kCache, kRef, kN>>

\* The loop is through: ClearFileCache, then the result is returned.
RenameClear ==
    /\ kRen.pc = "resync"
    /\ kRen.todo = {}
    /\ kCache' = NoCache
    /\ kRen' = [kRen EXCEPT !.pc = "done", !.cleared = TRUE, !.ret = "result"]
    /\ UNCHANGED <<kDisk, kRef, kN>>

CacheNext ==
    \/ OutsideEdit /\ UNCHANGED earlyVars /\ OtherFrame("cache")
    \/ RefStart /\ UNCHANGED earlyVars /\ OtherFrame("cache")
    \/ CacheCheck /\ UNCHANGED earlyVars /\ OtherFrame("cache")
    \/ CacheRead /\ UNCHANGED earlyVars /\ OtherFrame("cache")
    \/ CacheStore /\ UNCHANGED earlyVars /\ OtherFrame("cache")
    \/ RenameApply /\ UNCHANGED earlyVars /\ OtherFrame("cache")
    \/ RenameResync /\ UNCHANGED earlyVars /\ OtherFrame("cache")
    \/ RenameClear /\ UNCHANGED earlyVars /\ OtherFrame("cache")

InitCache == CacheInit /\ EarlyIdle /\ OtherIdle("cache")

SpecCache == InitCache /\ [][CacheNext]_vars

(***************************************************************************)
(* C27  Freshness of the file line cache.  A preview returned by readLine  *)
(* in a tool invocation made after the file last changed on disk (by       *)
(* ts_rename or by an outside edit) is a line of the file's new content,   *)
(* never of content cached earlier.                                        *)
(***************************************************************************)
C27_PreviewIsOfNewContent ==
    (kRef.pc = "done" /\ kRef.fresh) => kRef.preview = kDisk[kRef.path]

\* ts_references showed /a.ts, the file was edited outside, and a second
\* ts_references shows the line cached by the first.
StalePreview ==
    /\ kN = 3
    /\ kRen = RenIdle
    /\ kDisk["/a.ts"] = 1
    /\ kCache = [p \in {"/a.ts"} |-> 0]
    /\ kRef = [pc |-> "done", path |-> "/a.ts", lines |-> 0, preview |-> 0,
               fresh |-> TRUE]

(***************************************************************************)
(* C28  ts_rename after its writes.  When the handler returns with files   *)
(* modified on disk, whatever its result, every modified file has been     *)
(* re-synced to the LSP server and the file line cache has been cleared.   *)
(***************************************************************************)
C28_ResyncedAndClearedOnReturn ==
    (kRen.pc = "done" /\ kRen.modified # {}) =>
        /\ kRen.synced = kRen.modified
        /\ kRen.cleared

\* Both files were written; the re-sync of the first one visited failed and
\* the handler returned the error: the other file was not re-synced and the
\* cache was not cleared.
ReturnedUnsynced ==
    /\ kRen = [pc |-> "done", modified |-> CachePaths, todo |-> CachePaths,
               synced |-> {}, cleared |-> FALSE, ret |-> "error"]
    /\ \A p \in CachePaths : kDisk[p] = 1


(***************************************************************************)
(* run() of cmd/typescript-mcp: the LSP client is closed through           *)
(* closeOnce by the deferred closeLSP and by the goroutine that waits for  *)
(* the context of signal.NotifyContext.  Once.Do is modelled with its done *)
(* flag and its mutex; Client.Close with its four steps, whose errors are  *)
(* ignored or returned to nobody.                                          *)
(***************************************************************************)
Procs == {"main", "sig"}

CloseSteps == <<"Shutdown", "Exit", "conn.Close", "process.Stop">>

LspFresh == [calls |-> 0, finished |-> 0, step |-> 0, errs |-> {}]

PcOf(p) == IF p = "main" THEN mMain ELSE mSig

\* A Once that records completion when Do starts.
DoneAtStart == TRUE

\* sync.Once stores done only when f has returned.
DoneWhenEntering == FALSE

RunInit ==
    /\ mMain = "NewClient"
    /\ mSig = "unborn"
    /\ mOnce = [done |-> FALSE, locked |-> FALSE]
    /\ mCtx = FALSE
    /\ mLsp = LspFresh

\* SIGINT or SIGTERM arrives: the context is done.
Signal ==
    /\ mMain \notin {"returned", "failed"}
    /\ ~mCtx
    /\ mCtx' = TRUE
    /\ UNCHANGED <<mMain, mSig, mOnce, mLsp>>

\* lsp.NewClient fails: run() returns the error; closeLSP does not exist yet.
NewClientFails ==
    /\ mMain = "NewClient"
    /\ mMain' = "failed"
    /\ UNCHANGED <<mSig, mOnce, mCtx, mLsp>>

\* lsp.NewClient succeeds; closeLSP is deferred and the goroutine started;
\* run() goes on to server.ServeStdio.
Start ==
    /\ mMain = "NewClient"
    /\ mMain' = "ServeStdio"
    /\ mSig' = "wait"
    /\ UNCHANGED <<mOnce, mCtx, mLsp>>

\* ServeStdio returns (end of input, an error, or a signal): the deferred
\* closeLSP begins.
ServeReturns ==
    /\ mMain = "ServeStdio"
    /\ mMain' = "Do"
    /\ UNCHANGED <<mSig, mOnce, mCtx, mLsp>>

\* <-ctx.Done() returns in the goroutine, which calls closeLSP.
SigWakes ==
    /\ mSig = "wait"
    /\ mCtx
    /\ mSig' = "Do"
    /\ UNCHANGED <<mMain, mOnce, mLsp>>
    /\ UNCHANGED mCtx

SetPc(p, at) ==
    /\ IF p = "main" THEN mMain' = at /\ UNCHANGED mSig
                     ELSE mSig' = at /\ UNCHANGED mMain

\* Where closeLSP returns to: the deferred cancel() of run(), or the end of
\* the goroutine.
AfterDo(p) == IF p = "main" THEN "cancel" ELSE "ended"

\* Once.Do, fast path: done is loaded without the mutex.
DoFast(p) ==
    /\ PcOf(p) = "Do"
    /\ SetPc(p, IF mOnce.done THEN AfterDo(p) ELSE "doSlow")
    /\ UNCHANGED <<mOnce, mCtx, mLsp>>

\* Once.doSlow: the mutex is taken; with done set it is released at once,
\* otherwise f, that is lspClient.Close(), is entered.
DoSlow(p) ==
    /\ PcOf(p) = "doSlow"
    /\ ~mOnce.locked
    /\ IF mOnce.done
       THEN /\ SetPc(p, AfterDo(p))
            /\ UNCHANGED <<mOnce, mLsp>>
       ELSE /\ SetPc(p, "Close")
            /\ mOnce' = [done |-> DoneWhenEntering, locked |-> TRUE]
            /\ mLsp' = [mLsp EXCEPT !.calls = @ + 1, !.step = 0]
    /\ UNCHANGED mCtx

\* One step of Client.Close: Shutdown, Exit, conn.Close, process.Stop, each
\* succeeding or failing.
CloseStep(p) ==
    /\ PcOf(p) = "Close"
    /\ mLsp.step < Len(CloseSteps)
    /\ \E ok \in BOOLEAN :
         mLsp' = [mLsp EXCEPT !.step = @ + 1,
                              !.errs = IF ok THEN @
                                       ELSE @ \cup {CloseSteps[mLsp.step + 1]}]
    /\ UNCHANGED <<mMain, mSig, mOnce, mCtx>>

\* Client.Close returns; doSlow stores done and releases the mutex.
CloseReturns(p) ==
    /\ PcOf(p) = "Close"
    /\ mLsp.step = Len(CloseSteps)
    /\ mLsp' = [mLsp EXCEPT !.finished = @ + 1]
    /\ mOnce' = [done |-> TRUE, locked |-> FALSE]
    /\ SetPc(p, AfterDo(p))
    /\ UNCHANGED mCtx

\* The deferred cancel() runs and run() returns.
Cancel ==
    /\ mMain = "cancel"
    /\ mMain' = "returned"
    /\ mCtx' = TRUE
    /\ UNCHANGED <<mSig, mOnce, mLsp>>

RunNext ==
    \/ Signal /\ UNCHANGED earlyVars /\ OtherFrame("run")
    \/ NewClientFails /\ UNCHANGED earlyVars /\ OtherFrame("run")
    \/ Start /\ UNCHANGED earlyVars /\ OtherFrame("run")
    \/ ServeReturns /\ UNCHANGED earlyVars /\ OtherFrame("run")
    \/ SigWakes /\ UNCHANGED earlyVars /\ OtherFrame("run")
    \/ \E p \in Procs : DoFast(p) /\ UNCHANGED earlyVars /\ OtherFrame("run")
    \/ \E p \in Procs : DoSlow(p) /\ UNCHANGED earlyVars /\ OtherFrame("run")
    \/ \E p \in Procs : CloseStep(p) /\ UNCHANGED earlyVars /\ OtherFrame("run")
    \/ \E p \in Procs : CloseReturns(p) /\ UNCHANGED earlyVars /\ OtherFrame("run")
    \/ Cancel /\ UNCHANGED earlyVars /\ OtherFrame("run")

InitRun == RunInit /\ EarlyIdle /\ OtherIdle("run")

SpecRun == InitRun /\ [][RunNext]_vars

(***************************************************************************)
(* C29  The LSP client's Close runs at most once per process under every   *)
(* interleaving of the signal goroutine and the deferred shutdown in       *)
(* run(), and it has run, to its end, by the time run() returns after a    *)
(* successful start.                                                       *)
(***************************************************************************)
C29_CloseOnceAndBeforeReturn ==
    /\ mLsp.calls <= 1
    /\ mMain = "returned" => (mLsp.calls = 1 /\ mLsp.finished = 1)

\* A signal arrived and ServeStdio returned: the goroutine and the deferred
\* closeLSP of run() both went through closeOnce.Do, Close was entered once
\* and ran to its end (its Shutdown request failing), and run() has
\* returned.
C29_Witness ==
    /\ mMain = "returned"
    /\ mSig = "ended"
    /\ mLsp.calls = 1
    /\ mLsp.finished = 1
    /\ mLsp.errs = {"Shutdown"}
    /\ mOnce = [done |-> TRUE, locked |-> FALSE]


(***************************************************************************)
(* extractConciseHover of ts_hover.  A markdown is a sequence of bytes;    *)
(* the inputs are built from lines of a small pool, joined by "\n".        *)
(***************************************************************************)
MaxMdLines == 4

\* "", "a", "b", "```", "```ts" and "``".
MdLinePool ==
    {<<>>, <<97>>, <<98>>, <<96, 96, 96>>, <<96, 96, 96, 116, 115>>,
     <<96, 96>>}

\* strings.Split(s, "\n")
RECURSIVE StringsSplit(_)
StringsSplit(s) ==
    LET idx == IndexByte(s, 10)
    IN IF idx < 0 THEN <<s>>
       ELSE <<Prefix(s, idx)>> \o StringsSplit(Suffix(s, idx + 1))

\* strings.Join(a, "\n")
RECURSIVE StringsJoin(_)
StringsJoin(a) ==
    IF Len(a) = 0 THEN <<>>
    ELSE IF Len(a) = 1 THEN a[1]
    ELSE a[1] \o <<10>> \o StringsJoin(Tail(a))

\* strings.HasPrefix(line, "```")
HasFencePrefix(line) ==
    Len(line) >= 3 /\ SubSeq(line, 1, 3) = <<96, 96, 96>>

\* A loop that gives up a block the markdown never closes.
RECURSIVE HoverLoopClosedOnly(_, _, _, _, _)
HoverLoopClosedOnly(md, lines, k, inCodeBlock, codeLines) ==
    IF k > Len(lines) THEN md
    ELSE IF HasFencePrefix(lines[k])
    THEN IF inCodeBlock
         THEN IF Len(codeLines) > 0 THEN StringsJoin(codeLines)
              ELSE HoverLoopClosedOnly(md, lines, k + 1, FALSE, codeLines)
         ELSE HoverLoopClosedOnly(md, lines, k + 1, TRUE, codeLines)
    ELSE HoverLoopClosedOnly(md, lines, k + 1, inCodeBlock,
                   IF inCodeBlock THEN Append(codeLines, lines[k])
                   ELSE codeLines)

extractConciseHoverClosedOnly(md) ==
    HoverLoopClosedOnly(md, StringsSplit(md), 1, FALSE, <<>>)

\* The loop over the lines, and what follows it.
RECURSIVE HoverLoop(_, _, _, _, _)
HoverLoop(md, lines, k, inCodeBlock, codeLines) ==
    IF k > Len(lines)
    THEN IF inCodeBlock /\ Len(codeLines) > 0 THEN StringsJoin(codeLines)
         ELSE md
    ELSE IF HasFencePrefix(lines[k])
    THEN IF inCodeBlock
         THEN IF Len(codeLines) > 0 THEN StringsJoin(codeLines)
              ELSE HoverLoop(md, lines, k + 1, FALSE, codeLines)
         ELSE HoverLoop(md, lines, k + 1, TRUE, codeLines)
    ELSE HoverLoop(md, lines, k + 1, inCodeBlock,
                   IF inCodeBlock THEN Append(codeLines, lines[k])
                   ELSE codeLines)

extractConciseHover(md) == HoverLoop(md, StringsSplit(md), 1, FALSE, <<>>)

HoverPending == [done |-> FALSE, text |-> <<>>]

HoverInit ==
    /\ hLines \in UNION {[1..n -> MdLinePool] : n \in 1..MaxMdLines}
    /\ hMd = StringsJoin(hLines)
    /\ hOut = HoverPending

HoverCall ==
    /\ ~hOut.done
    /\ hOut' = [done |-> TRUE, text |-> extractConciseHover(hMd)]
    /\ UNCHANGED <<hLines, hMd>>

HoverNext == HoverCall /\ UNCHANGED earlyVars /\ OtherFrame("hover")

InitHover == HoverInit /\ EarlyIdle /\ OtherIdle("hover")

SpecHover == InitHover /\ [][HoverNext]_vars

(***************************************************************************)
(* Fenced code blocks of the markdown hLines: the fence lines pair up in   *)
(* order, the first opening a block, the second closing it, and so on; a   *)
(* last block without closing fence runs to the end of the markdown.       *)
(***************************************************************************)
IsFence(i) == Len(hLines[i]) >= 3 /\ \A j \in 1..3 : hLines[i][j] = 96

Fences == {i \in DOMAIN hLines : IsFence(i)}

FencesBefore(i) == Cardinality({j \in Fences : j < i})

Opening == {i \in Fences : FencesBefore(i) % 2 = 0}

\* The line that ends the block opened at line i.
BlockEnd(i) ==
    IF \E j \in Fences : j > i
    THEN CHOOSE j \in Fences : j > i /\ \A l \in Fences : l > i => j <= l
    ELSE Len(hLines) + 1

BlockLines(i) == SubSeq(hLines, i + 1, BlockEnd(i) - 1)

FullBlocks == {i \in Opening : Len(BlockLines(i)) >= 1}

FirstFullBlock == CHOOSE i \in FullBlocks : \A j \in FullBlocks : i <= j

\* The lines before the first empty line.
RECURSIVE FirstParagraphLines(_)
FirstParagraphLines(lines) ==
    IF Len(lines) = 0 \/ Len(lines[1]) = 0 THEN <<>>
    ELSE <<lines[1]>> \o FirstParagraphLines(Tail(lines))

UnclosedSecondBlockReturned ==
    /\ hLines = <<<<96, 96, 96>>, <<96, 96, 96>>, <<96, 96, 96, 116, 115>>,
                  <<97>>>>
    /\ FullBlocks = {3}
    /\ hOut = [done |-> TRUE, text |-> <<97>>]

=============================================================================
